---- MODULE Spec2Model ----
(***************************************************************************)
(* Coverage-counting path renderer (GrCoverageCountingPathRenderer.cpp):   *)
(* deferred DrawPathsOp batches, per-opList RTPendingPaths registries,     *)
(* clip paths, and the preFlush / onExecute / postFlush cycle.             *)
(*                                                                         *)
(* SkASSERTs are modelled as guards: a call whose assertion fails aborts   *)
(* the debug build, so the call is not a step of the model.                *)
(***************************************************************************)
EXTENDS Integers, Sequences, FiniteSets, TLC

VARIABLES
    ops,                        \* DrawPathsOp objects, by op id
    draws,                      \* SingleDraw nodes (fHeadDraw of op i is node i)
    fRTPendingPathsMap,         \* opList id -> RTPendingPaths
    fFlushing,
    fPerFlushIndexBuffer,
    fPerFlushVertexBuffer,
    fPerFlushInstanceBuffer,
    fPerFlushAtlases,
    fPerFlushResourcesAreValid,
    drawCmds,                   \* the draw commands issued in this flush
    flushInfo,                  \* what the last preFlush counted and wrote
    hist,                       \* call history: last call, call counters
    fDrawCachablePaths,         \* the renderer's constructor argument
    canDrawRet,                 \* the last onCanDrawPath query and its answer
    fOriginalTexture,           \* hardware buffer generator: cached texture, 0 for null
    fOwningContextID,           \* hardware buffer generator: context of the cached texture
    messageBus,                 \* GrGpuResourceFreedMessages posted so far
    contexts,                   \* the GrContexts: abandoned or not, backend, resource cache
    genHist                     \* generator call history

vars == <<ops, draws, fRTPendingPathsMap, fFlushing, fPerFlushIndexBuffer,
          fPerFlushVertexBuffer, fPerFlushInstanceBuffer, fPerFlushAtlases,
          fPerFlushResourcesAreValid, drawCmds, flushInfo, hist,
          fDrawCachablePaths, canDrawRet, fOriginalTexture, fOwningContextID,
          messageBus, contexts, genHist>>

----------------------------------------------------------------------------
(* Bounds of the model *)

MaxOps == 3                     \* DrawPathsOps ever created (merge lifecycle)

MaxFlushOps == 2                \* DrawPathsOps ever created (flush lifecycle)

MaxFlushes == 2                 \* preFlush calls

MaxClipReqs == 1                \* makeClipProcessor calls

OpIds == 1 .. MaxOps

RTIds == {1, 2}                 \* opList ids

\* GrCCPRAtlas: the largest page side (a small stand-in for the texture size limit)
MaxAtlasSize == 2

----------------------------------------------------------------------------
(* Integer rectangles <<left, top, right, bottom>> *)

Min2(a, b) == IF a < b THEN a ELSE b

Max2(a, b) == IF a > b THEN a ELSE b

Width(r) == r[3] - r[1]

Height(r) == r[4] - r[2]

RectIsEmpty(r) == r[1] >= r[3] \/ r[2] >= r[4]

RectContains(a, b) ==
    /\ ~RectIsEmpty(b)
    /\ ~RectIsEmpty(a)
    /\ a[1] <= b[1] /\ a[2] <= b[2] /\ a[3] >= b[3] /\ a[4] >= b[4]

RectIntersects(a, b) ==
    /\ ~RectIsEmpty(a)
    /\ ~RectIsEmpty(b)
    /\ a[1] < b[3] /\ b[1] < a[3] /\ a[2] < b[4] /\ b[2] < a[4]

RectIntersection(a, b) ==
    <<Max2(a[1], b[1]), Max2(a[2], b[2]), Min2(a[3], b[3]), Min2(a[4], b[4])>>

RectJoin(a, b) ==
    IF RectIsEmpty(b) THEN a
    ELSE IF RectIsEmpty(a) THEN b
    ELSE <<Min2(a[1], b[1]), Min2(a[2], b[2]), Max2(a[3], b[3]), Max2(a[4], b[4])>>

----------------------------------------------------------------------------
(* Inputs of a draw: the path (its device bounds and fill type), the clip's *)
(* conservative bounds, and the paint (sRGB flags and processor set).       *)

PathInside == <<0, 0, 1, 1>>

PathWide == <<1, 0, 3, 1>>

ClipAll == <<0, 0, 4, 4>>

ClipLeft == <<0, 0, 2, 1>>

ClipAway == <<5, 5, 6, 6>>

\* <<path bounds, clip bounds>>: contained, partly clipped, clipped away, page-filling
Shapes ==
    { <<PathInside, ClipAll>>, <<PathWide, ClipLeft>>,
      <<PathInside, ClipAway>>, <<PathWide, ClipAll>> }

FlushShapes == { <<PathInside, ClipAll>>, <<PathInside, ClipAway>>, <<PathWide, ClipAll>> }

\* <<fill type, sRGB flags, processors>>
PaintBase == <<"winding", 0, "procA">>

FlushPaints == { PaintBase }

AllPaints ==
    { PaintBase, <<"evenodd", 0, "procA">>, <<"winding", 1, "procA">>,
      <<"winding", 0, "procB">> }

NoOp ==
    [ st |-> "none", fSRGBFlags |-> 0, fProcessors |-> "none", finalized |-> FALSE,
      fTailDraw |-> 0, fOwningRTPendingPaths |-> 0, fInstanceCount |-> 0,
      fNumSkippedInstances |-> 0, fBaseInstance |-> -1, fAtlasBatches |-> <<>>,
      bounds |-> <<0, 0, 0, 0>>, setupFlush |-> 0, executed |-> FALSE ]

DeadOp == [NoOp EXCEPT !.st = "dead"]

Live(o) == ops[o].st = "live"

NumCreated == Cardinality({o \in OpIds : ops[o].st # "none"})

NoFlushInfo ==
    [ counted |-> FALSE, failAt |-> "none", maxTotalPaths |-> 0,
      numClipPaths |-> 0, written |-> 0, skipped |-> 0, emitted |-> <<>>,
      overrun |-> FALSE, named |-> {} ]

NoBuffer == [ alloc |-> FALSE, size |-> 0, mapped |-> FALSE, data |-> <<>> ]

\* What the last makeClipProcessor was asked and what it told the processor.
NoClipRet == [ id |-> 0, gen |-> 0, accessRect |-> <<0, 0, 0, 0>>,
               mustCheckBounds |-> FALSE ]

\* The path renderer after construction.
RendererInit ==
    /\ ops = [o \in OpIds |-> NoOp]
    /\ draws = << >>
    /\ fRTPendingPathsMap = << >>
    /\ fFlushing = FALSE
    /\ fPerFlushIndexBuffer = FALSE
    /\ fPerFlushVertexBuffer = FALSE
    /\ fPerFlushInstanceBuffer = NoBuffer
    /\ fPerFlushAtlases = <<>>
    /\ fPerFlushResourcesAreValid = FALSE
    /\ drawCmds = {}
    /\ flushInfo = NoFlushInfo
    /\ hist = [ numPre |-> 0, numPost |-> 0, numClipReqs |-> 0, clipRet |-> NoClipRet ]

\* No onCanDrawPath query yet.
NoCanDraw == [ asked |-> FALSE ]

ContextIds == {1, 2, 3}

\* Contexts 1 and 2 are OpenGL contexts, context 3 is a Vulkan context; none is
\* abandoned and their resource caches hold no cross-context texture.
InitialContexts ==
    [ c \in ContextIds |->
        [ abandoned |-> FALSE, backend |-> IF c = 3 THEN "vulkan" ELSE "gl",
          crossContext |-> {} ] ]

\* The hardware buffer generator after construction, in a build with
\* (debug = TRUE) or without assertions.
GeneratorInit(debug) ==
    /\ fOriginalTexture = 0
    /\ fOwningContextID = 0
    /\ messageBus = <<>>
    /\ contexts = InitialContexts
    /\ genHist = [ debug |-> debug, alive |-> TRUE, aborted |-> FALSE,
                   numImports |-> 0, numTextures |-> 0, mipped |-> {},
                   numCalls |-> 0, ret |-> 0, context |-> 0, cached |-> {} ]

Init ==
    /\ RendererInit
    /\ fDrawCachablePaths = TRUE
    /\ canDrawRet = NoCanDraw
    /\ GeneratorInit(TRUE)

----------------------------------------------------------------------------
(* SingleDraw lists *)

\* The node ids from node n to the end of its fNext chain.
RECURSIVE Walk(_, _)
Walk(d, n) ==
    IF n = 0 \/ n \notin DOMAIN d THEN <<>>
    ELSE <<n>> \o Walk(d, d[n].fNext)

\* fDrawsAllocator.push_back: the next free node above the embedded head draws.
NewNode(d) == CHOOSE n \in (MaxOps + 1) .. (2 * MaxOps + 1) :
                 /\ n \notin DOMAIN d
                 /\ \A m \in (MaxOps + 1) .. (n - 1) : m \in DOMAIN d

GetFillType(d, o) == d[o].fill

----------------------------------------------------------------------------
(* DrawPathsOp.  Each method is a function of the op table o, the SingleDraw  *)
(* nodes d and the registry map m, so that the handlers below can chain them. *)

NoRTPendingPaths ==
    [ fDrawOps |-> <<>>, fDrawsAllocator |-> {}, fClipPaths |-> << >>, recorded |-> <<>> ]

\* std::map::operator[]: the entry, default-constructed when absent.
MapAt(m, id) == IF id \in DOMAIN m THEN m[id] ELSE NoRTPendingPaths

MapPut(m, id, r) == (id :> r) @@ m

SeqRemove(list, x) == SelectSeq(list, LAMBDA y : y # x)

InSeq(list, x) == \E i \in 1 .. Len(list) : list[i] = x

\* The DrawPathsOp constructor: one SingleDraw, embedded in the op, tail == head.
kPathCropThreshold == 65536

\* A view matrix <<scale, translateX, translateY>>.
IdentityMatrix == <<1, 0, 0>>

\* SkMatrix::mapRect
MapRect(m, r) == << r[1] * m[1] + m[2], r[2] * m[1] + m[3],
                    r[3] * m[1] + m[2], r[4] * m[1] + m[3] >>

\* The bounds of an empty path.
EmptyPathBounds == <<0, 0, 0, 0>>

\* Op(cropPath, path, kIntersect_SkPathOp) on a path that fills its bounds.
PathOpIntersect(cropbox, path) ==
    IF RectIntersects(cropbox, path) THEN RectIntersection(cropbox, path)
    ELSE EmptyPathBounds

\* (mutant) the path is left as it is
CropPath_Uncropped(path, cropbox, opFails) == path

\* crop_path; opFails: the path op fails and the result is reset.
CropPath(path, cropbox, opFails) ==
    IF opFails THEN EmptyPathBounds ELSE PathOpIntersect(cropbox, path)

NeedsCrop(devBounds) == Max2(Height(devBounds), Width(devBounds)) > kPathCropThreshold

\* The head draw the constructor fills in; args is what it was given.
HeadDraw(op, paint, shape, viewMatrix, opFails) ==
    [ path |-> IF NeedsCrop(MapRect(viewMatrix, shape[1]))
               THEN CropPath(MapRect(viewMatrix, shape[1]), shape[2], opFails)
               ELSE shape[1],
      fMatrix |-> IF NeedsCrop(MapRect(viewMatrix, shape[1])) THEN IdentityMatrix
                  ELSE viewMatrix,
      fill |-> paint[1], fClipIBounds |-> shape[2], fColor |-> op, fNext |-> 0,
      args |-> [ fViewMatrix |-> viewMatrix, bounds |-> shape[1] ] ]

\* The device-space bounds of a stored draw (parsePath).
DevIBounds(draw) == MapRect(draw.fMatrix, draw.path)

\* The constructor for a shape drawn with a view matrix.
ConstructOpWith(o, d, op, paint, shape, viewMatrix, opFails) ==
    [ ops |-> [o EXCEPT ![op] =
                 [NoOp EXCEPT !.st = "live", !.fSRGBFlags = paint[2],
                              !.fProcessors = paint[3], !.fTailDraw = op,
                              !.fInstanceCount = 1,
                              !.bounds = DevIBounds(HeadDraw(op, paint, shape,
                                                             viewMatrix, opFails))]],
      draws |-> (op :> HeadDraw(op, paint, shape, viewMatrix, opFails)) @@ d ]

\* The constructor for a shape given in device space.
ConstructOp(o, d, op, paint, shape) ==
    ConstructOpWith(o, d, op, paint, shape, IdentityMatrix, FALSE)

\* (mutant) finalize does not check how many draws the op holds
FinalizeAsserts_AnyLength(o, flushing, op) == ~flushing

FinalizeAsserts(o, flushing, op) ==
    /\ ~flushing
    /\ o[op].fInstanceCount = 1
    /\ o[op].fTailDraw = op

\* finalize: the processor set is finalized against the head draw's colour.
FinalizeOp(o, op) == [o EXCEPT ![op].finalized = TRUE]

WasRecordedAsserts(o, flushing, op) ==
    /\ ~flushing
    /\ o[op].fOwningRTPendingPaths = 0

\* SkTInternalLList::addToTail
AddToTail(list, op) == Append(list, op)

\* (mutant) the op joins the head of the registry's list
RecordOp_AtHead(o, m, op, id) ==
    LET r == MapAt(m, id) IN
    [ ops |-> [o EXCEPT ![op].fOwningRTPendingPaths = id],
      map |-> MapPut(m, id, [r EXCEPT !.fDrawOps = <<op>> \o r.fDrawOps,
                                      !.recorded = Append(r.recorded, op)]) ]

\* wasRecorded: the op is bound to the registry of its opList and joins its list.
\* `recorded` keeps the order of the wasRecorded calls themselves.
RecordOp(o, m, op, id) ==
    LET r == MapAt(m, id) IN
    [ ops |-> [o EXCEPT ![op].fOwningRTPendingPaths = id],
      map |-> MapPut(m, id, [r EXCEPT !.fDrawOps = AddToTail(r.fDrawOps, op),
                                      !.recorded = Append(r.recorded, op)]) ]

OnCombineAsserts(o, flushing, this, that) ==
    /\ ~flushing
    /\ o[this].fOwningRTPendingPaths # 0
    /\ o[this].fInstanceCount # 0
    /\ \/ o[that].fOwningRTPendingPaths = 0
       \/ o[that].fOwningRTPendingPaths = o[this].fOwningRTPendingPaths
    /\ o[that].fInstanceCount # 0

\* (mutant) the sRGB flags are not compared
CombineCompatible_NoSRGB(o, d, this, that) ==
    ~ \/ GetFillType(d, this) # GetFillType(d, that)
      \/ o[this].fProcessors # o[that].fProcessors

\* The three comparisons that refuse a merge.
CombineCompatible(o, d, this, that) ==
    ~ \/ GetFillType(d, this) # GetFillType(d, that)
      \/ o[this].fSRGBFlags # o[that].fSRGBFlags
      \/ o[this].fProcessors # o[that].fProcessors

\* (mutant) the copy of that's head draw does not keep its fNext
CombineSplice_DropsChain(o, d, m, this, that) ==
    LET id == o[this].fOwningRTPendingPaths
        n == NewNode(d)
        tail == o[this].fTailDraw
        d1 == (n :> [d[that] EXCEPT !.fNext = 0]) @@ [d EXCEPT ![tail].fNext = n]
        newTail == IF o[that].fTailDraw = that THEN d1[tail].fNext
                   ELSE o[that].fTailDraw
    IN [ ops |-> [o EXCEPT
                    ![this].fTailDraw = newTail,
                    ![this].bounds = RectJoin(o[this].bounds, o[that].bounds),
                    ![this].fInstanceCount = o[this].fInstanceCount + o[that].fInstanceCount,
                    ![that].fInstanceCount = 0],
         draws |-> d1,
         map |-> [m EXCEPT ![id].fDrawsAllocator = m[id].fDrawsAllocator \cup {n}] ]

\* (mutant) the tail always becomes the copied node
CombineSplice_TailIsCopy(o, d, m, this, that) ==
    LET id == o[this].fOwningRTPendingPaths
        n == NewNode(d)
        tail == o[this].fTailDraw
        d1 == (n :> d[that]) @@ [d EXCEPT ![tail].fNext = n]
    IN [ ops |-> [o EXCEPT
                    ![this].fTailDraw = n,
                    ![this].bounds = RectJoin(o[this].bounds, o[that].bounds),
                    ![this].fInstanceCount = o[this].fInstanceCount + o[that].fInstanceCount,
                    ![that].fInstanceCount = 0],
         draws |-> d1,
         map |-> [m EXCEPT ![id].fDrawsAllocator = m[id].fDrawsAllocator \cup {n}] ]

\* The splice: that's head draw is copied into this's registry allocator and linked
\* after this's tail; that's further draws already live in the same allocator.
CombineSplice(o, d, m, this, that) ==
    LET id == o[this].fOwningRTPendingPaths
        n == NewNode(d)
        tail == o[this].fTailDraw
        d1 == (n :> d[that]) @@ [d EXCEPT ![tail].fNext = n]
        newTail == IF o[that].fTailDraw = that THEN d1[tail].fNext
                   ELSE o[that].fTailDraw
    IN [ ops |-> [o EXCEPT
                    ![this].fTailDraw = newTail,
                    ![this].bounds = RectJoin(o[this].bounds, o[that].bounds),
                    ![this].fInstanceCount = o[this].fInstanceCount + o[that].fInstanceCount,
                    ![that].fInstanceCount = 0],
         draws |-> d1,
         map |-> [m EXCEPT ![id].fDrawsAllocator = m[id].fDrawsAllocator \cup {n}] ]

\* onCombineIfPossible: its result and the state it leaves.
OnCombineIfPossible(o, d, m, this, that) ==
    IF CombineCompatible(o, d, this, that)
    THEN [ ret |-> TRUE ] @@ CombineSplice(o, d, m, this, that)
    ELSE [ ret |-> FALSE, ops |-> o, draws |-> d, map |-> m ]

\* (mutant) the destructor leaves the op in its registry's list
DestroyRemove_KeepsOp(m, id, op) == m

\* ~DrawPathsOp: a registered op removes itself from its registry's list.
DestroyRemove(m, id, op) ==
    IF id # 0
    THEN [m EXCEPT ![id].fDrawOps = SeqRemove(m[id].fDrawOps, op),
                   ![id].recorded = SelectSeq(m[id].recorded, LAMBDA y : y # op)]
    ELSE m

DestroyOp(o, d, m, op) ==
    [ ops |-> [o EXCEPT ![op] = DeadOp],
      draws |-> [n \in DOMAIN d \ {op} |-> d[n]],
      map |-> DestroyRemove(m, o[op].fOwningRTPendingPaths, op) ]

----------------------------------------------------------------------------
(* The draw handlers.  onDrawPath hands the new op to the render target's    *)
(* opList (addDrawOp), which finalizes it and then either combines it into an *)
(* op it already holds, deleting the new op, or records it.                  *)

OnDrawPathAsserts == ~fFlushing

\* What no call into the path renderer changes.
RendererOnly ==
    UNCHANGED <<fDrawCachablePaths, canDrawRet, fOriginalTexture, fOwningContextID,
                messageBus, contexts, genHist>>

FlushUnchanged ==
    UNCHANGED <<fFlushing, fPerFlushIndexBuffer, fPerFlushVertexBuffer,
                fPerFlushInstanceBuffer, fPerFlushAtlases,
                fPerFlushResourcesAreValid, drawCmds, flushInfo>>

OnDrawPath(paints, shapes, cap) ==
    /\ OnDrawPathAsserts
    /\ NumCreated < cap
    /\ \E paint \in paints, shape \in shapes, id \in RTIds :
       \E cand \in {0} \cup {c \in OpIds : Live(c) /\ ops[c].fOwningRTPendingPaths = id} :
         LET op == NumCreated + 1
             s1 == ConstructOp(ops, draws, op, paint, shape)
             o2 == FinalizeOp(s1.ops, op)
             c == IF cand # 0 /\ OnCombineAsserts(o2, fFlushing, cand, op)
                  THEN OnCombineIfPossible(o2, s1.draws, fRTPendingPathsMap, cand, op)
                  ELSE [ ret |-> FALSE, ops |-> o2, draws |-> s1.draws,
                         map |-> fRTPendingPathsMap ]
             merged == DestroyOp(c.ops, c.draws, c.map, op)
             rec == RecordOp(c.ops, c.map, op, id)
         IN /\ FinalizeAsserts(s1.ops, fFlushing, op)
            /\ (cand # 0 => c.ret)
            /\ IF c.ret
               THEN /\ ops' = merged.ops
                    /\ draws' = merged.draws
                    /\ fRTPendingPathsMap' = merged.map
               ELSE /\ WasRecordedAsserts(c.ops, fFlushing, op)
                    /\ ops' = rec.ops
                    /\ draws' = c.draws
                    /\ fRTPendingPathsMap' = rec.map
    /\ UNCHANGED hist
    /\ FlushUnchanged
    /\ RendererOnly

\* The opList combines two ops it holds (forward combining), deleting the second.
CombineRecorded ==
    \E this \in OpIds, that \in OpIds :
      /\ this # that
      /\ Live(this) /\ Live(that)
      /\ ops[that].fOwningRTPendingPaths # 0
      /\ OnCombineAsserts(ops, fFlushing, this, that)
      /\ LET c == OnCombineIfPossible(ops, draws, fRTPendingPathsMap, this, that)
             merged == DestroyOp(c.ops, c.draws, c.map, that)
         IN /\ c.ret
            /\ ops' = merged.ops
            /\ draws' = merged.draws
            /\ fRTPendingPathsMap' = merged.map
      /\ UNCHANGED hist
      /\ FlushUnchanged
      /\ RendererOnly

\* The opList deletes an op it holds.
DeleteOp ==
    \E op \in OpIds :
      /\ Live(op)
      /\ LET s1 == DestroyOp(ops, draws, fRTPendingPathsMap, op) IN
           /\ ops' = s1.ops
           /\ draws' = s1.draws
           /\ fRTPendingPathsMap' = s1.map
      /\ UNCHANGED hist
      /\ FlushUnchanged
      /\ RendererOnly

----------------------------------------------------------------------------
(* Clip paths *)

\* Device bounds of the clip paths, by generation id.
ClipGenIDs == {1, 2}

ClipPathBounds(gen) == IF gen = 1 THEN <<0, 0, 2, 1>> ELSE <<5, 5, 6, 6>>

AccessRects == { <<0, 0, 1, 1>>, <<0, 0, 3, 3>> }

FlushAccessRects == { <<0, 0, 3, 3>> }

FlushClipGenIDs == {1}

\* A ClipPath as std::map::operator[] default-constructs it.  `requested` keeps
\* the access rectangles asked of the entry and `numPlaced` counts its placements.
UninitClipPath ==
    [ init |-> FALSE, fPathDevIBounds |-> <<0, 0, 0, 0>>, fAccessRect |-> <<0, 0, 0, 0>>,
      fHasAtlas |-> FALSE, fAtlas |-> 0, fAtlasOffsetX |-> 0, fAtlasOffsetY |-> 0,
      requested |-> {}, numPlaced |-> 0 ]

ClipPathInit(cp, gen, accessRect) ==
    [cp EXCEPT !.init = TRUE, !.fPathDevIBounds = ClipPathBounds(gen),
               !.fAccessRect = accessRect, !.requested = {accessRect}]

\* (mutant) a repeated request replaces the stored rectangle
ClipPathAddAccess_Replaces(cp, accessRect) ==
    [cp EXCEPT !.fAccessRect = accessRect, !.requested = @ \cup {accessRect}]

ClipPathAddAccess(cp, accessRect) ==
    [cp EXCEPT !.fAccessRect = RectJoin(cp.fAccessRect, accessRect),
               !.requested = @ \cup {accessRect}]

\* (mutant) a clip processor may be requested inside a flush
MakeClipProcessorAsserts_Unguarded == TRUE

MakeClipProcessorAsserts == ~fFlushing

ClipLookup(r, gen) == IF gen \in DOMAIN r.fClipPaths THEN r.fClipPaths[gen]
                      ELSE UninitClipPath

\* The entry after lines 219-225: created and initialised, or widened.
ClipPathAfterRequest(m, id, gen, accessRect) ==
    IF ~ClipLookup(MapAt(m, id), gen).init
    THEN ClipPathInit(ClipLookup(MapAt(m, id), gen), gen, accessRect)
    ELSE ClipPathAddAccess(ClipLookup(MapAt(m, id), gen), accessRect)

\* (mutant) the bounds check is decided on the widened rectangle of the entry
MustCheckBounds_Widened(clipPath, accessRect) ==
    ~RectContains(clipPath.fPathDevIBounds, clipPath.fAccessRect)

\* Line 227, on the entry as the request left it.
MustCheckBounds(clipPath, accessRect) ==
    ~RectContains(clipPath.fPathDevIBounds, accessRect)

\* makeClipProcessor as a function: the registries it leaves and the
\* MustCheckBounds of the processor it returns.
MakeClipProcessorResult(m, id, gen, accessRect) ==
    [ map |-> MapPut(m, id,
                     [MapAt(m, id) EXCEPT !.fClipPaths =
                         (gen :> ClipPathAfterRequest(m, id, gen, accessRect)) @@ @]),
      mustCheckBounds |->
          MustCheckBounds(ClipPathAfterRequest(m, id, gen, accessRect), accessRect) ]

MakeClipProcessor(gens, rects) ==
    \E id \in RTIds, gen \in gens, accessRect \in rects :
      /\ MakeClipProcessorAsserts
      /\ hist.numClipReqs < MaxClipReqs
      /\ fRTPendingPathsMap' =
           MakeClipProcessorResult(fRTPendingPathsMap, id, gen, accessRect).map
      /\ hist' = [hist EXCEPT !.numClipReqs = hist.numClipReqs + 1,
                              !.clipRet = [ id |-> id, gen |-> gen,
                                            accessRect |-> accessRect,
                                            mustCheckBounds |->
                                              MakeClipProcessorResult(fRTPendingPathsMap,
                                                id, gen, accessRect).mustCheckBounds ]]
      /\ UNCHANGED <<ops, draws, fFlushing, fPerFlushIndexBuffer, fPerFlushVertexBuffer,
                     fPerFlushInstanceBuffer, fPerFlushAtlases,
                     fPerFlushResourcesAreValid, drawCmds, flushInfo>>
      /\ RendererOnly

----------------------------------------------------------------------------
(* Atlas pages (GrCCPRAtlas): a page packs rectangles left to right on one shelf *)

NewAtlas == [ w |-> 0, h |-> 0, tex |-> FALSE ]

AtlasFits(a, w, h) == a.w + w <= MaxAtlasSize /\ h <= MaxAtlasSize

\* addRect: the location of the rectangle, and the page with its draw bounds grown.
AtlasAddRect(a, w, h) == [a EXCEPT !.w = a.w + w, !.h = Max2(a.h, h)]

AtlasDrawBounds(a) == <<a.w, a.h>>

\* (mutant) a path that fits the first page is placed there, sealed or not
PlaceParsedPathInAtlas_FirstFit(atlases, emitted, clipIBounds, pathIBounds, junk) ==
    IF ~RectContains(clipIBounds, pathIBounds) /\ ~RectIntersects(clipIBounds, pathIBounds)
    THEN [ atlas |-> 0, offX |-> 0, offY |-> 0, atlases |-> atlases, emitted |-> emitted ]
    ELSE
      LET clipped == IF RectContains(clipIBounds, pathIBounds) THEN pathIBounds
                     ELSE RectIntersection(clipIBounds, pathIBounds)
          h == Height(clipped)
          w == Width(clipped)
          n == Len(atlases)
          fits == n > 0 /\ AtlasFits(atlases[1], w, h)
      IN IF fits
         THEN [ atlas |-> 1, offX |-> atlases[1].w - clipped[1], offY |-> 0 - clipped[2],
                atlases |-> [atlases EXCEPT ![1] = AtlasAddRect(atlases[1], w, h)],
                emitted |-> emitted ]
         ELSE [ atlas |-> n + 1, offX |-> 0 - clipped[1], offY |-> 0 - clipped[2],
                atlases |-> Append(atlases, AtlasAddRect(NewAtlas, w, h)),
                emitted |-> IF n > 0
                            THEN Append(emitted, AtlasDrawBounds(atlases[n]))
                            ELSE emitted ]

\* placeParsedPathInAtlas.  junk is what an uninitialised atlasLocation holds.
\* Returns the page (0 for nullptr), the offsets, the pages and the emitted ops.
PlaceParsedPathInAtlas(atlases, emitted, clipIBounds, pathIBounds, junk) ==
    IF ~RectContains(clipIBounds, pathIBounds) /\ ~RectIntersects(clipIBounds, pathIBounds)
    THEN [ atlas |-> 0, offX |-> 0, offY |-> 0, atlases |-> atlases, emitted |-> emitted ]
    ELSE
      LET clipped == IF RectContains(clipIBounds, pathIBounds) THEN pathIBounds
                     ELSE RectIntersection(clipIBounds, pathIBounds)
          h == Height(clipped)
          w == Width(clipped)
          n == Len(atlases)
          fitsBack == n > 0 /\ AtlasFits(atlases[n], w, h)
          emitted1 == IF ~fitsBack /\ n > 0
                      THEN Append(emitted, AtlasDrawBounds(atlases[n]))
                      ELSE emitted
          fitsNew == AtlasFits(NewAtlas, w, h)
          atlases1 == IF fitsBack
                      THEN [atlases EXCEPT ![n] = AtlasAddRect(atlases[n], w, h)]
                      ELSE Append(atlases,
                                  IF fitsNew THEN AtlasAddRect(NewAtlas, w, h)
                                  ELSE NewAtlas)
          loc == IF fitsBack THEN <<atlases[n].w, 0>>
                 ELSE IF fitsNew THEN <<0, 0>>
                 ELSE junk
      IN [ atlas |-> Len(atlases1), offX |-> loc[1] - clipped[1],
           offY |-> loc[2] - clipped[2], atlases |-> atlases1, emitted |-> emitted1 ]

----------------------------------------------------------------------------
(* preFlush *)

\* What the loops of preFlush thread through: the ops, the registries, the pages,
\* the emitted coverage ops, pathInstanceIdx, the instance data written, and
\* whether the assertions on the caller (an op set up once, a clip path placed
\* once) passed so far.  The assertions on the counts themselves are not guards:
\* they are what the accounting formulas below establish.

\* DrawPathsOp::addAtlasBatch
AddAtlasBatch(batches, atlas, endIdx) ==
    Append(batches, [ fAtlas |-> atlas, fEndInstanceIdx |-> endIdx ])

RECURSIVE SetupDraws(_, _, _, _, _, _, _)

\* (mutant) a rejected path ends the op's loop
SetupDraw_RejectEndsBatch(fs, d, o, nodes, i, currentAtlas, junk, p) ==
    IF p.atlas = 0
    THEN [ fs |-> [fs EXCEPT !.ops[o].fNumSkippedInstances = @ + 1],
           currentAtlas |-> currentAtlas ]
    ELSE SetupDraws(
           [fs EXCEPT !.ops[o].fAtlasBatches =
                          IF currentAtlas # p.atlas /\ currentAtlas # 0
                          THEN AddAtlasBatch(@, currentAtlas, fs.idx)
                          ELSE @,
                      !.atlases = p.atlases, !.emitted = p.emitted,
                      !.data = Append(@, [ node |-> nodes[i], fColor |-> d[nodes[i]].fColor,
                                           atlas |-> p.atlas, offX |-> p.offX,
                                           offY |-> p.offY ]),
                      !.idx = @ + 1,
                      !.overrun = @ \/ fs.idx >= fs.size],
           d, o, nodes, i + 1, p.atlas, junk)

\* setupResources' loop over the op's SingleDraws; SetupDraw is one iteration,
\* given where placeParsedPathInAtlas put the draw.
SetupDraw(fs, d, o, nodes, i, currentAtlas, junk, p) ==
    IF p.atlas = 0
    THEN SetupDraws(
           [fs EXCEPT !.ops[o].fNumSkippedInstances = @ + 1,
                      !.atlases = p.atlases, !.emitted = p.emitted],
           d, o, nodes, i + 1, currentAtlas, junk)
    ELSE SetupDraws(
           [fs EXCEPT !.ops[o].fAtlasBatches =
                          IF currentAtlas # p.atlas /\ currentAtlas # 0
                          THEN AddAtlasBatch(@, currentAtlas, fs.idx)
                          ELSE @,
                      !.atlases = p.atlases, !.emitted = p.emitted,
                      !.data = Append(@, [ node |-> nodes[i], fColor |-> d[nodes[i]].fColor,
                                           atlas |-> p.atlas, offX |-> p.offX,
                                           offY |-> p.offY ]),
                      !.idx = @ + 1,
                      !.overrun = @ \/ fs.idx >= fs.size],
           d, o, nodes, i + 1, p.atlas, junk)

SetupDraws(fs, d, o, nodes, i, currentAtlas, junk) ==
    IF i > Len(nodes)
    THEN [ fs |-> fs, currentAtlas |-> currentAtlas ]
    ELSE SetupDraw(fs, d, o, nodes, i, currentAtlas, junk,
                   PlaceParsedPathInAtlas(fs.atlases, fs.emitted,
                                          d[nodes[i]].fClipIBounds, DevIBounds(d[nodes[i]]),
                                          junk))

\* The end of setupResources: the last batch is closed, and preFlush adds the
\* op's skipped instances to its total.
SetupResourcesEnd(o, fs, currentAtlas) ==
    [fs EXCEPT !.ops[o].fAtlasBatches =
                   IF currentAtlas # 0 THEN AddAtlasBatch(@, currentAtlas, fs.idx)
                   ELSE @,
               !.skipped = @ + fs.ops[o].fNumSkippedInstances]

SetupResourcesLoop(o, r) == SetupResourcesEnd(o, r.fs, r.currentAtlas)

\* DrawPathsOp::setupResources
SetupResources(fs, d, o, flushNo, junk) ==
    IF ~(fs.ops[o].fInstanceCount > 0 /\ fs.ops[o].fBaseInstance = -1)
    THEN [fs EXCEPT !.ok = FALSE]
    ELSE SetupResourcesLoop(o,
           SetupDraws([fs EXCEPT !.ops[o].fBaseInstance = fs.idx,
                                 !.ops[o].setupFlush = flushNo],
                      d, o, Walk(d, o), 1, 0, junk))

RECURSIVE SetupOps(_, _, _, _, _, _)
SetupOps(fs, d, list, i, flushNo, junk) ==
    IF i > Len(list) \/ ~fs.ok THEN fs
    ELSE SetupOps(SetupResources(fs, d, list[i], flushNo, junk), d, list, i + 1,
                  flushNo, junk)

\* ClipPath::placePathInAtlas, given where placeParsedPathInAtlas put the path.
PlacedClipPath(cp, p) ==
    [cp EXCEPT !.fAtlas = p.atlas, !.fHasAtlas = TRUE, !.numPlaced = @ + 1,
               !.fAtlasOffsetX = IF p.atlas = 0 THEN @ ELSE p.offX,
               !.fAtlasOffsetY = IF p.atlas = 0 THEN @ ELSE p.offY]

PlacePathInAtlasAt(fs, id, gen, p) ==
    [fs EXCEPT !.map[id].fClipPaths[gen] = PlacedClipPath(@, p),
               !.atlases = p.atlases, !.emitted = p.emitted]

\* (mutant) placePathInAtlas without its assertions
PlacePathInAtlas_Unchecked(fs, id, gen, junk) ==
    PlacePathInAtlasAt(fs, id, gen,
      PlaceParsedPathInAtlas(fs.atlases, fs.emitted,
                             fs.map[id].fClipPaths[gen].fAccessRect,
                             fs.map[id].fClipPaths[gen].fPathDevIBounds, junk))

\* ClipPath::placePathInAtlas
PlacePathInAtlas(fs, id, gen, junk) ==
    IF ~fs.map[id].fClipPaths[gen].init \/ fs.map[id].fClipPaths[gen].fHasAtlas
    THEN [fs EXCEPT !.ok = FALSE]
    ELSE PlacePathInAtlasAt(fs, id, gen,
           PlaceParsedPathInAtlas(fs.atlases, fs.emitted,
                                  fs.map[id].fClipPaths[gen].fAccessRect,
                                  fs.map[id].fClipPaths[gen].fPathDevIBounds, junk))

\* The clip paths of one registry, in the order of their generation ids.
LeastOf(S) == CHOOSE x \in S : \A y \in S : x <= y

RECURSIVE PlaceClips(_, _, _, _)
PlaceClipsFrom(fs, id, gens, g, junk) ==
    PlaceClips(PlacePathInAtlas(fs, id, g, junk), id, gens \ {g}, junk)

PlaceClips(fs, id, gens, junk) ==
    IF gens = {} \/ ~fs.ok THEN fs
    ELSE PlaceClipsFrom(fs, id, gens, LeastOf(gens), junk)

\* One registry's turn in the second loop: its ops, then its clip paths.
PlaceAllClips(fs, id, junk) == PlaceClips(fs, id, DOMAIN fs.map[id].fClipPaths, junk)

\* The second loop of preFlush, over the opList ids.
RECURSIVE FillLoop(_, _, _, _, _, _)
FillLoop(fs, d, ids, i, flushNo, junk) ==
    IF i > Len(ids) \/ ~fs.ok THEN fs
    ELSE IF ids[i] \notin DOMAIN fs.map
    THEN FillLoop(fs, d, ids, i + 1, flushNo, junk)
    ELSE FillLoop(PlaceAllClips(SetupOps(fs, d, fs.map[ids[i]].fDrawOps, 1, flushNo, junk),
                                ids[i], junk),
                  d, ids, i + 1, flushNo, junk)

\* (mutant) one path per op, whatever it has absorbed
CountDraws_OnePerOp(d, list, i) == Len(list)

\* The paths one registry contributes to maxTotalPaths: every SingleDraw of every
\* op in its list, and every clip path.
RECURSIVE CountDraws(_, _, _)
CountDraws(d, list, i) ==
    IF i > Len(list) THEN 0
    ELSE Len(Walk(d, list[i])) + CountDraws(d, list, i + 1)

\* (mutant) the clip paths are left out of maxTotalPaths
RECURSIVE CountPaths_ClipsUncounted(_, _, _, _)
CountPaths_ClipsUncounted(m, d, ids, i) ==
    IF i > Len(ids) THEN <<0, 0>>
    ELSE LET rest == CountPaths_ClipsUncounted(m, d, ids, i + 1) IN
         IF ids[i] \notin DOMAIN m THEN rest
         ELSE LET nClips == Cardinality(DOMAIN m[ids[i]].fClipPaths) IN
              << CountDraws(d, m[ids[i]].fDrawOps, 1) + rest[1], nClips + rest[2] >>

\* The first loop of preFlush: <<maxTotalPaths, numClipPaths>>.
RECURSIVE CountPaths(_, _, _, _)
CountPaths(m, d, ids, i) ==
    IF i > Len(ids) THEN <<0, 0>>
    ELSE LET rest == CountPaths(m, d, ids, i + 1) IN
         IF ids[i] \notin DOMAIN m THEN rest
         ELSE LET nClips == Cardinality(DOMAIN m[ids[i]].fClipPaths) IN
              << CountDraws(d, m[ids[i]].fDrawOps, 1) + nClips + rest[1],
                 nClips + rest[2] >>

\* (mutant) preFlush does not check that no flush is in progress
PreFlushAsserts_NotFlushingUnchecked ==
    /\ ~fPerFlushIndexBuffer
    /\ ~fPerFlushVertexBuffer
    /\ ~fPerFlushInstanceBuffer.alloc
    /\ fPerFlushAtlases = <<>>

PreFlushAsserts ==
    /\ ~fFlushing
    /\ ~fPerFlushIndexBuffer
    /\ ~fPerFlushVertexBuffer
    /\ ~fPerFlushInstanceBuffer.alloc
    /\ fPerFlushAtlases = <<>>

IdLists == { <<>>, <<1>>, <<2>>, <<1, 2>>, <<1, 1>> }

FailPoints == {"none", "index", "vertex", "instance", "atlasOps"}

JunkLocations == { <<0, 0>>, <<7, 7>> }

\* Whether the flush gets past the allocation at `point`.
AllocOk(failAt, point) == failAt # point

\* (mutant) the last page is left open
SealLast_Never(atlases, emitted) == emitted

\* (mutant) preFlush does not reset the validity mark
ValidAfterReset_Kept == fPerFlushResourcesAreValid

\* fPerFlushResourcesAreValid = false (287): the mark on every return of
\* preFlush between that line and line 404.
ValidAfterReset == FALSE

\* The coverage ops emitted once the loops are done: the open page is sealed.
SealLast(atlases, emitted) ==
    IF atlases # <<>>
    THEN Append(emitted, AtlasDrawBounds(atlases[Len(atlases)]))
    ELSE emitted

\* (mutant) preFlush goes on with no path to draw
NoPathsToDraw_Never(maxTotalPaths) == FALSE

\* The early return "Nothing to draw".
NoPathsToDraw(maxTotalPaths) == maxTotalPaths = 0

\* The flush from the instance-buffer fill on: fs is what the second loop left.
PreFlushFill(failAt, maxTotalPaths, numClipPaths, fs) ==
    /\ fs.ok
    /\ fPerFlushIndexBuffer' = TRUE
    /\ fPerFlushVertexBuffer' = TRUE
    /\ fPerFlushInstanceBuffer' =
          [ alloc |-> TRUE, size |-> maxTotalPaths, mapped |-> FALSE, data |-> fs.data ]
    /\ ops' = fs.ops
    /\ fRTPendingPathsMap' = fs.map
    /\ flushInfo' = [ counted |-> TRUE, failAt |-> failAt,
                      maxTotalPaths |-> maxTotalPaths,
                      numClipPaths |-> numClipPaths, written |-> fs.idx,
                      skipped |-> fs.skipped,
                      emitted |-> SealLast(fs.atlases, fs.emitted),
                      overrun |-> fs.overrun, named |-> fs.named ]
    /\ UNCHANGED draws
    /\ IF ~AllocOk(failAt, "atlasOps")
       THEN /\ fPerFlushAtlases' = fs.atlases
            /\ fPerFlushResourcesAreValid' = ValidAfterReset
       ELSE /\ \E texFail \in {{}, {1} \cap (1 .. Len(fs.atlases))} :
                 fPerFlushAtlases' =
                   [i \in 1 .. Len(fs.atlases) |->
                      [fs.atlases[i] EXCEPT !.tex = i \notin texFail]]
            /\ fPerFlushResourcesAreValid' = TRUE

\* The registries the opListIDs of a flush find (lines 293-296, 355-358).
NamedRegistries(ids) == {ids[i] : i \in 1 .. Len(ids)} \cap DOMAIN fRTPendingPathsMap

\* The flush after fFlushing is set: cnt is what the counting loop found.
PreFlushCounted(ids, failAt, junk, cnt) ==
    IF DOMAIN fRTPendingPathsMap = {}
    THEN /\ failAt = "none" /\ junk = <<0, 0>>
         /\ flushInfo' = NoFlushInfo
         /\ UNCHANGED <<ops, draws, fRTPendingPathsMap, fPerFlushIndexBuffer,
                        fPerFlushVertexBuffer, fPerFlushInstanceBuffer,
                        fPerFlushAtlases, fPerFlushResourcesAreValid>>
    ELSE IF NoPathsToDraw(cnt[1])
    THEN /\ failAt = "none" /\ junk = <<0, 0>>
         /\ fPerFlushResourcesAreValid' = ValidAfterReset
         /\ flushInfo' = [NoFlushInfo EXCEPT !.counted = TRUE,
                             !.named = NamedRegistries(ids)]
         /\ UNCHANGED <<ops, draws, fRTPendingPathsMap, fPerFlushIndexBuffer,
                        fPerFlushVertexBuffer, fPerFlushInstanceBuffer,
                        fPerFlushAtlases>>
    ELSE IF ~AllocOk(failAt, "index") \/ ~AllocOk(failAt, "vertex")
            \/ ~AllocOk(failAt, "instance")
    THEN /\ junk = <<0, 0>>
         /\ fPerFlushResourcesAreValid' = ValidAfterReset
         /\ fPerFlushIndexBuffer' = AllocOk(failAt, "index")
         /\ fPerFlushVertexBuffer' =
               (AllocOk(failAt, "index") /\ AllocOk(failAt, "vertex"))
         /\ flushInfo' = [NoFlushInfo EXCEPT !.counted = TRUE, !.failAt = failAt,
                             !.maxTotalPaths = cnt[1], !.numClipPaths = cnt[2],
                             !.named = NamedRegistries(ids)]
         /\ UNCHANGED <<ops, draws, fRTPendingPathsMap, fPerFlushInstanceBuffer,
                        fPerFlushAtlases>>
    ELSE PreFlushFill(failAt, cnt[1], cnt[2],
           FillLoop([ ops |-> ops, map |-> fRTPendingPathsMap, atlases |-> <<>>,
                      emitted |-> <<>>, idx |-> 0, data |-> <<>>, skipped |-> 0,
                      size |-> cnt[1], overrun |-> FALSE, ok |-> TRUE,
                      named |-> NamedRegistries(ids) ],
                    draws, ids, 1, hist.numPre + 1, junk))

PreFlush ==
    \E ids \in IdLists, failAt \in FailPoints, junk \in JunkLocations :
      /\ PreFlushAsserts
      /\ hist.numPre < MaxFlushes
      /\ fFlushing' = TRUE
      /\ hist' = [hist EXCEPT !.numPre = hist.numPre + 1]
      /\ drawCmds' = {}
      /\ RendererOnly
      /\ PreFlushCounted(ids, failAt, junk, CountPaths(fRTPendingPathsMap, draws, ids, 1))

----------------------------------------------------------------------------
(* onExecute *)

\* (mutant) onExecute does not check that a flush is in progress
OnExecuteAsserts_Unchecked == TRUE

OnExecuteAsserts == fFlushing

\* (mutant) onExecute does not look at the validity mark
SetupFailed_Ignored == FALSE

\* The early return of onExecute: "Setup failed".
SetupFailed == ~fPerFlushResourcesAreValid

\* The draw commands of one op: one per atlas batch whose page has a texture.
\* hasTex[i] tells whether the page of batch i has a texture proxy.
RECURSIVE ExecuteBatches(_, _, _, _, _)

\* (mutant) a skipped batch does not advance the base instance
ExecuteBatches_SkipKeepsBase(o, batches, i, baseInstance, hasTex) ==
    IF i > Len(batches) THEN {}
    ELSE LET batch == batches[i]
         IN IF ~hasTex[i]
            THEN ExecuteBatches(o, batches, i + 1, baseInstance, hasTex)
            ELSE { [ op |-> o, atlas |-> batch.fAtlas, baseInstance |-> baseInstance,
                     count |-> batch.fEndInstanceIdx - baseInstance ] }
                 \cup ExecuteBatches(o, batches, i + 1, batch.fEndInstanceIdx, hasTex)

ExecuteBatches(o, batches, i, baseInstance, hasTex) ==
    IF i > Len(batches) THEN {}
    ELSE LET batch == batches[i]
             rest == ExecuteBatches(o, batches, i + 1, batch.fEndInstanceIdx, hasTex)
         IN IF ~hasTex[i] THEN rest
            ELSE { [ op |-> o, atlas |-> batch.fAtlas, baseInstance |-> baseInstance,
                     count |-> batch.fEndInstanceIdx - baseInstance ] } \cup rest

\* The assertions inside onExecute's loop and after it.
ExecuteLoopAsserts(op) ==
    /\ op.fBaseInstance >= 0
    /\ \A i \in 1 .. Len(op.fAtlasBatches) :
         op.fAtlasBatches[i].fEndInstanceIdx >
           (IF i = 1 THEN op.fBaseInstance ELSE op.fAtlasBatches[i - 1].fEndInstanceIdx)
    /\ (IF op.fAtlasBatches = <<>> THEN op.fBaseInstance
        ELSE op.fAtlasBatches[Len(op.fAtlasBatches)].fEndInstanceIdx)
         = op.fBaseInstance + op.fInstanceCount - op.fNumSkippedInstances

\* An op is executed at most once (its processors are moved into the pipeline).
OnExecute ==
    \E o \in OpIds :
      /\ Live(o)
      /\ ~ops[o].executed
      /\ OnExecuteAsserts
      /\ IF SetupFailed
         THEN /\ ops' = [ops EXCEPT ![o].executed = TRUE]
              /\ UNCHANGED drawCmds
         ELSE /\ ExecuteLoopAsserts(ops[o])
              /\ \E stale \in BOOLEAN :
                   LET op == ops[o]
                       n == Len(op.fAtlasBatches)
                       current == op.setupFlush = hist.numPre
                       \* a page of an earlier flush is gone: the read is of freed memory
                       hasTex == [i \in 1 .. n |->
                                    IF current THEN fPerFlushAtlases[op.fAtlasBatches[i].fAtlas].tex
                                    ELSE stale]
                   IN /\ (current => ~stale)
                      /\ drawCmds' = drawCmds \cup
                           ExecuteBatches(o, op.fAtlasBatches, 1, op.fBaseInstance, hasTex)
                      /\ ops' = [ops EXCEPT ![o].executed = TRUE,
                                            ![o].fProcessors = "moved"]
      /\ UNCHANGED <<draws, fRTPendingPathsMap, fFlushing, fPerFlushIndexBuffer,
                     fPerFlushVertexBuffer, fPerFlushInstanceBuffer, fPerFlushAtlases,
                     fPerFlushResourcesAreValid, flushInfo, hist>>
      /\ RendererOnly

----------------------------------------------------------------------------
(* postFlush *)

PostFlushAsserts == fFlushing

\* (mutant) only the first id is erased
EraseAll_FirstOnly(m, ids, i) ==
    IF ids = <<>> THEN m ELSE [k \in DOMAIN m \ {ids[1]} |-> m[k]]

\* fRTPendingPathsMap.erase(id) for every id of the list.
RECURSIVE EraseAll(_, _, _)
EraseAll(m, ids, i) ==
    IF i > Len(ids) THEN m
    ELSE EraseAll([k \in DOMAIN m \ {ids[i]} |-> m[k]], ids, i + 1)

IdSet(ids) == {ids[i] : i \in 1 .. Len(ids)}

\* The nodes of the erased registries' allocators go with them.
ErasedNodes(m, ids) ==
    UNION {m[k].fDrawsAllocator : k \in DOMAIN m \cap IdSet(ids)}

\* Ops are deleted with their opList before its registry is erased: "We wait to
\* erase these until after flush, once Ops and FPs are done accessing their data."
OpsAreDone(m, ids) ==
    \A k \in DOMAIN m \cap IdSet(ids) : m[k].fDrawOps = <<>>

\* What postFlush leaves of the per-flush resources and of the registries.
PostFlushState(m, d, ids) ==
    [ atlases |-> <<>>, instanceBuffer |-> NoBuffer, vertexBuffer |-> FALSE,
      indexBuffer |-> FALSE, map |-> EraseAll(m, ids, 1),
      draws |-> [n \in DOMAIN d \ ErasedNodes(m, ids) |-> d[n]] ]

PostFlush ==
    \E ids \in IdLists :
      /\ PostFlushAsserts
      /\ OpsAreDone(fRTPendingPathsMap, ids)
      /\ LET r == PostFlushState(fRTPendingPathsMap, draws, ids) IN
           /\ fPerFlushAtlases' = r.atlases
           /\ fPerFlushInstanceBuffer' = r.instanceBuffer
           /\ fPerFlushVertexBuffer' = r.vertexBuffer
           /\ fPerFlushIndexBuffer' = r.indexBuffer
           /\ fRTPendingPathsMap' = r.map
           /\ draws' = r.draws
      /\ fFlushing' = FALSE
      /\ hist' = [hist EXCEPT !.numPost = hist.numPost + 1]
      /\ drawCmds' = {}
      /\ flushInfo' = NoFlushInfo
      /\ UNCHANGED <<ops, fPerFlushResourcesAreValid>>
      /\ RendererOnly

Next ==
    \/ OnDrawPath(FlushPaints, FlushShapes, MaxFlushOps)
    \/ CombineRecorded
    \/ DeleteOp
    \/ MakeClipProcessor(FlushClipGenIDs, FlushAccessRects)
    \/ PreFlush
    \/ OnExecute
    \/ PostFlush

Spec == Init /\ [][Next]_vars

----------------------------------------------------------------------------
(* The flush cycle *)

BuffersReleased ==
    /\ fPerFlushAtlases = <<>>
    /\ ~fPerFlushIndexBuffer
    /\ ~fPerFlushVertexBuffer
    /\ ~fPerFlushInstanceBuffer.alloc

\* C1: flushes never nest: a preFlush is accepted only when every earlier preFlush
\* has had its postFlush, and a postFlush only inside a flush, so the two calls
\* alternate and at most one flush is in progress.
FlushesNeverNest ==
    /\ hist.numPre - hist.numPost \in {0, 1}
    /\ fFlushing <=> hist.numPre - hist.numPost = 1

\* The second flush is in progress, after the first one was completed.
FlushesNeverNestWitness ==
    fFlushing /\ hist.numPre = 2 /\ hist.numPost = 1

\* C2: when an allocation of preFlush fails (index, vertex or instance buffer, or
\* the atlas coverage-op buffers), no op executed in that flush issues a draw
\* command, and the postFlush that ends the flush releases every per-flush
\* resource and leaves the registries it was not given.
AllocFailureDrawsNothing ==
    /\ [](fFlushing /\ flushInfo.failAt # "none" => drawCmds = {})
    /\ [][ fFlushing /\ flushInfo.failAt # "none" /\ ~fFlushing' =>
             /\ BuffersReleased'
             /\ \A k \in DOMAIN fRTPendingPathsMap' :
                  k \in DOMAIN fRTPendingPathsMap
                  /\ fRTPendingPathsMap'[k] = fRTPendingPathsMap[k] ]_vars

\* The coverage-op buffers failed after an op was given its atlas batches, and the
\* op was executed.
AllocFailureWitness ==
    /\ fFlushing
    /\ flushInfo.failAt = "atlasOps"
    /\ \E o \in OpIds : /\ Live(o) /\ ops[o].executed
                        /\ ops[o].setupFlush = hist.numPre
                        /\ ops[o].fAtlasBatches # <<>>

\* preFlush got as far as filling the instance buffer.
FlushFilled == fFlushing /\ fPerFlushInstanceBuffer.alloc

\* C3 (as stated): instances written plus instances skipped is the total path count
\* of the counting pass, draw paths and clip paths together.
WrittenPlusSkippedIsTotal ==
    FlushFilled => flushInfo.written + flushInfo.skipped = flushInfo.maxTotalPaths

\* C3 (amended): instances written plus instances skipped is the total path count
\* less the clip paths counted: a clip path is counted but is neither written to
\* the instance buffer nor counted as skipped.  Per op, the instances from its base
\* are its draws less the ones it skipped.
WrittenPlusSkippedIsDrawPaths ==
    FlushFilled =>
      /\ flushInfo.written + flushInfo.skipped
           = flushInfo.maxTotalPaths - flushInfo.numClipPaths
      /\ flushInfo.written = Len(fPerFlushInstanceBuffer.data)
      /\ \A o \in OpIds :
           Live(o) /\ ops[o].setupFlush = hist.numPre =>
             /\ ops[o].fNumSkippedInstances <= ops[o].fInstanceCount
             /\ (IF ops[o].fAtlasBatches = <<>> THEN ops[o].fBaseInstance
                 ELSE ops[o].fAtlasBatches[Len(ops[o].fAtlasBatches)].fEndInstanceIdx)
                  = ops[o].fBaseInstance + ops[o].fInstanceCount
                    - ops[o].fNumSkippedInstances

\* A flush that wrote an instance, skipped one and counted a clip path.
SkipAccountingWitness ==
    /\ FlushFilled
    /\ flushInfo.written >= 1
    /\ flushInfo.skipped >= 1
    /\ flushInfo.numClipPaths >= 1

\* C4: no instance is written at or past the end of the instance buffer, which
\* is sized for the total path count.
InstanceBufferNeverOverrun ==
    FlushFilled =>
      /\ ~flushInfo.overrun
      /\ fPerFlushInstanceBuffer.size = flushInfo.maxTotalPaths
      /\ Len(fPerFlushInstanceBuffer.data) <= fPerFlushInstanceBuffer.size

\* A merged batch filled the buffer to its last slot.
InstanceBufferWitness ==
    /\ FlushFilled
    /\ flushInfo.written = flushInfo.maxTotalPaths
    /\ \E o \in OpIds : /\ Live(o) /\ ops[o].setupFlush = hist.numPre
                        /\ ops[o].fInstanceCount = 2
                        /\ ops[o].fNumSkippedInstances = 0

\* C5: postFlush(ids) leaves no atlas page and no index, vertex or instance
\* buffer, and of the registries exactly those whose id is not in ids, each as
\* it was.  Outside a flush nothing per-flush is held.
PostFlushReleasesAndErases ==
    /\ ~fFlushing => BuffersReleased
    /\ fFlushing =>
         \A ids \in IdLists :
           LET r == PostFlushState(fRTPendingPathsMap, draws, ids) IN
             /\ r.atlases = <<>>
             /\ ~r.indexBuffer /\ ~r.vertexBuffer /\ ~r.instanceBuffer.alloc
             /\ DOMAIN r.map = DOMAIN fRTPendingPathsMap \ IdSet(ids)
             /\ \A k \in DOMAIN r.map : r.map[k] = fRTPendingPathsMap[k]

\* A flush is over and a registry it placed a clip path for was not erased.
PostFlushWitness ==
    /\ ~fFlushing
    /\ hist.numPost >= 1
    /\ \E k \in DOMAIN fRTPendingPathsMap :
         \E g \in DOMAIN fRTPendingPathsMap[k].fClipPaths :
           fRTPendingPathsMap[k].fClipPaths[g].fHasAtlas

InstancesOf(o) ==
    {k \in 1 .. Len(fPerFlushInstanceBuffer.data) :
       InSeq(Walk(draws, o), fPerFlushInstanceBuffer.data[k].node)}

PositionIn(list, x) == CHOOSE i \in 1 .. Len(list) : list[i] = x

\* C7: within a registry the ops are set up in the order they were recorded: every
\* instance of an op recorded earlier comes before every instance of one recorded
\* later, and the instances of one op follow its SingleDraw list.
RecordOrderPreserved ==
    FlushFilled =>
      \A a \in OpIds, b \in OpIds :
        /\ Live(a) /\ Live(b)
        /\ ops[a].setupFlush = hist.numPre /\ ops[b].setupFlush = hist.numPre
        /\ ops[a].fOwningRTPendingPaths = ops[b].fOwningRTPendingPaths
        => LET rec == fRTPendingPathsMap[ops[a].fOwningRTPendingPaths].recorded IN
             /\ (a # b /\ PositionIn(rec, a) < PositionIn(rec, b) =>
                   \A x \in InstancesOf(a), y \in InstancesOf(b) : x < y)
             /\ (a = b =>
                   \A x \in InstancesOf(a), y \in InstancesOf(a) :
                     x < y =>
                       PositionIn(Walk(draws, a), fPerFlushInstanceBuffer.data[x].node)
                         < PositionIn(Walk(draws, a), fPerFlushInstanceBuffer.data[y].node))

\* Two ops of one registry each have an instance in the buffer.
RecordOrderWitness ==
    /\ FlushFilled
    /\ \E a \in OpIds, b \in OpIds :
         /\ a # b /\ Live(a) /\ Live(b)
         /\ ops[a].fOwningRTPendingPaths = ops[b].fOwningRTPendingPaths
         /\ ops[a].setupFlush = hist.numPre /\ ops[b].setupFlush = hist.numPre
         /\ InstancesOf(a) # {} /\ InstancesOf(b) # {}

----------------------------------------------------------------------------
(* The methods of DrawPathsOp called one at a time, in any order their       *)
(* assertions allow, over every paint: the specification the merge properties are checked under. *)

OpShapes == { <<PathInside, ClipAll>>, <<PathWide, ClipLeft>> }

OpRTs == {1, 2}

NewOp ==
    /\ NumCreated < MaxOps
    /\ \E paint \in AllPaints, shape \in OpShapes :
         LET s1 == ConstructOp(ops, draws, NumCreated + 1, paint, shape) IN
           /\ ops' = s1.ops
           /\ draws' = s1.draws
    /\ UNCHANGED <<fRTPendingPathsMap, hist>>
    /\ FlushUnchanged
    /\ RendererOnly

Finalize ==
    \E op \in OpIds :
      /\ Live(op)
      /\ FinalizeAsserts(ops, fFlushing, op)
      /\ ~ops[op].finalized
      /\ ops' = FinalizeOp(ops, op)
      /\ UNCHANGED <<draws, fRTPendingPathsMap, hist>>
      /\ FlushUnchanged
      /\ RendererOnly

WasRecorded ==
    \E op \in OpIds, id \in OpRTs :
      /\ Live(op)
      /\ WasRecordedAsserts(ops, fFlushing, op)
      /\ LET r == RecordOp(ops, fRTPendingPathsMap, op, id) IN
           /\ ops' = r.ops
           /\ fRTPendingPathsMap' = r.map
      /\ UNCHANGED <<draws, hist>>
      /\ FlushUnchanged
      /\ RendererOnly

Combine ==
    \E this \in OpIds, that \in OpIds :
      /\ this # that
      /\ Live(this) /\ Live(that)
      /\ OnCombineAsserts(ops, fFlushing, this, that)
      /\ LET c == OnCombineIfPossible(ops, draws, fRTPendingPathsMap, this, that) IN
           /\ c.ret
           /\ ops' = c.ops
           /\ draws' = c.draws
           /\ fRTPendingPathsMap' = c.map
      /\ UNCHANGED hist
      /\ FlushUnchanged
      /\ RendererOnly

NextOps ==
    \/ NewOp
    \/ WasRecorded
    \/ Combine
    \/ DeleteOp

SpecOps == Init /\ [][NextOps]_vars

----------------------------------------------------------------------------
(* Merging *)

\* What a batch draws, in order: the colour, path and clip of each SingleDraw.
Payload(d, op) ==
    LET w == Walk(d, op) IN
      [k \in 1 .. Len(w) |-> <<d[w[k]].fColor, d[w[k]].path, d[w[k]].fClipIBounds>>]

SameRegistryOrNone(o, this, that) ==
    \/ o[that].fOwningRTPendingPaths = 0
    \/ o[that].fOwningRTPendingPaths = o[this].fOwningRTPendingPaths

\* Three live batches that may be merged in either grouping: a and b recorded in
\* the same registry, c unrecorded or in that registry, all pairwise compatible.
Mergeable3(a, b, c) ==
    /\ a # b /\ b # c /\ a # c
    /\ Live(a) /\ Live(b) /\ Live(c)
    /\ OnCombineAsserts(ops, fFlushing, a, b)
    /\ OnCombineAsserts(ops, fFlushing, b, c)
    /\ ops[b].fOwningRTPendingPaths = ops[a].fOwningRTPendingPaths
    /\ CombineCompatible(ops, draws, a, b)
    /\ CombineCompatible(ops, draws, b, c)

\* (a <- b) <- c
MergeLeft(a, b, c) ==
    LET s1 == OnCombineIfPossible(ops, draws, fRTPendingPathsMap, a, b)
    IN OnCombineIfPossible(s1.ops, s1.draws, s1.map, a, c)

\* a <- (b <- c)
MergeRight(a, b, c) ==
    LET s1 == OnCombineIfPossible(ops, draws, fRTPendingPathsMap, b, c)
    IN OnCombineIfPossible(s1.ops, s1.draws, s1.map, a, b)

\* C8: merging b into a and then c into the result gives the same ordered
\* SingleDraws as merging c into b and then that result into a: in both cases
\* a's draws, then b's, then c's.
MergeAssociative ==
    \A a \in OpIds, b \in OpIds, c \in OpIds :
      Mergeable3(a, b, c) =>
        LET l == MergeLeft(a, b, c)
            r == MergeRight(a, b, c)
        IN /\ l.ret /\ r.ret
           /\ Payload(l.draws, a) = Payload(r.draws, a)
           /\ Payload(l.draws, a) =
                Payload(draws, a) \o Payload(draws, b) \o Payload(draws, c)

\* Three batches with different paths, merged in either grouping into one batch
\* of three draws.
MergeAssociativeWitness ==
    \E a \in OpIds, b \in OpIds, c \in OpIds :
      /\ Mergeable3(a, b, c)
      /\ ops[c].fOwningRTPendingPaths = 0
      /\ draws[a].path # draws[b].path
      /\ Len(Walk(MergeLeft(a, b, c).draws, a)) = 3
      /\ Len(Walk(MergeRight(a, b, c).draws, a)) = 3

\* The SingleDraws reachable from the batches recorded in a registry.
RECURSIVE SumWalks(_, _, _)
SumWalks(o, d, S) ==
    IF S = {} THEN 0
    ELSE LET x == CHOOSE y \in S : TRUE
         IN Len(Walk(d, x)) + SumWalks(o, d, S \ {x})

ReachableDraws(o, d) ==
    SumWalks(o, d, {x \in OpIds : o[x].st = "live" /\ o[x].fOwningRTPendingPaths # 0})

RECURSIVE SumCounts(_, _)
SumCounts(o, S) ==
    IF S = {} THEN 0
    ELSE LET x == CHOOSE y \in S : TRUE
         IN o[x].fInstanceCount + SumCounts(o, S \ {x})

\* The instance counts of all live batches together.
TotalInstanceCount(o) == SumCounts(o, {x \in OpIds : o[x].st = "live"})

\* A pair of live batches onCombineIfPossible accepts as its arguments.
CanCallCombine(this, that) ==
    /\ this # that
    /\ Live(this) /\ Live(that)
    /\ OnCombineAsserts(ops, fFlushing, this, that)

\* What a successful merge of that into this leaves, apart from the draw count
\* of the registered batches.
MergePostcondition(this, that, r) ==
    LET w == Walk(r.draws, this) IN
      /\ r.ret
      /\ Payload(r.draws, this) = Payload(draws, this) \o Payload(draws, that)
      /\ r.ops[this].fTailDraw = w[Len(w)]
      /\ r.draws[r.ops[this].fTailDraw].fNext = 0
      /\ Len(w) = r.ops[this].fInstanceCount
      /\ r.ops[this].fInstanceCount = ops[this].fInstanceCount + ops[that].fInstanceCount
      /\ r.ops[this].bounds = RectJoin(ops[this].bounds, ops[that].bounds)
      /\ RectContains(r.ops[this].bounds, ops[this].bounds)
      /\ RectContains(r.ops[this].bounds, ops[that].bounds)
      /\ r.ops[that].fInstanceCount = 0

\* C9 (as stated): after a successful merge this holds its own draws followed by
\* that's in order, its tail is the last of them, its count is the sum, its bounds
\* the union, that's count is 0, and the number of SingleDraws reachable from the
\* registered batches is what it was before the merge.
MergeConservesReachableDraws ==
    \A this \in OpIds, that \in OpIds :
      CanCallCombine(this, that) /\ CombineCompatible(ops, draws, this, that) =>
        LET r == OnCombineIfPossible(ops, draws, fRTPendingPathsMap, this, that) IN
          /\ MergePostcondition(this, that, r)
          /\ ReachableDraws(r.ops, r.draws) = ReachableDraws(ops, draws)

\* C9 (amended): the same, except that what is conserved is the sum of the
\* instance counts of the live batches; the draws reachable from the registered
\* batches grow by that's count at least, since that either was not recorded or
\* still holds its own list, and an emptied batch still reaches the tail it gave.
MergeSplicesAndConservesCounts ==
    \A this \in OpIds, that \in OpIds :
      CanCallCombine(this, that) /\ CombineCompatible(ops, draws, this, that) =>
        LET r == OnCombineIfPossible(ops, draws, fRTPendingPathsMap, this, that) IN
          /\ MergePostcondition(this, that, r)
          /\ TotalInstanceCount(r.ops) = TotalInstanceCount(ops)
          /\ ReachableDraws(r.ops, r.draws) >=
               ReachableDraws(ops, draws) + ops[that].fInstanceCount

\* A batch that already absorbed one absorbs a compatible third with other bounds.
MergeSplicesWitness ==
    \E this \in OpIds, that \in OpIds :
      /\ CanCallCombine(this, that)
      /\ CombineCompatible(ops, draws, this, that)
      /\ ops[this].fInstanceCount = 2
      /\ ops[this].bounds # ops[that].bounds
      /\ OnCombineIfPossible(ops, draws, fRTPendingPathsMap, this, that)
            .ops[this].fInstanceCount = 3

\* C10: for a recorded batch and a batch that is unrecorded or in the same
\* registry, the merge succeeds exactly when fill type, sRGB flags and processors
\* are equal, and a refused merge changes nothing.
MergeIffCompatible ==
    \A this \in OpIds, that \in OpIds :
      CanCallCombine(this, that) =>
        LET r == OnCombineIfPossible(ops, draws, fRTPendingPathsMap, this, that)
            equal == /\ draws[this].fill = draws[that].fill
                     /\ ops[this].fSRGBFlags = ops[that].fSRGBFlags
                     /\ ops[this].fProcessors = ops[that].fProcessors
        IN /\ r.ret = equal
           /\ ~r.ret => /\ r.ops = ops
                        /\ r.draws = draws
                        /\ r.map = fRTPendingPathsMap

\* A batch holding two draws refuses a third that differs in its sRGB flags only.
MergeIffCompatibleWitness ==
    \E this \in OpIds, that \in OpIds :
      /\ CanCallCombine(this, that)
      /\ ops[this].fInstanceCount = 2
      /\ draws[this].fill = draws[that].fill
      /\ ops[this].fProcessors = ops[that].fProcessors
      /\ ops[this].fSRGBFlags # ops[that].fSRGBFlags
      /\ ~OnCombineIfPossible(ops, draws, fRTPendingPathsMap, this, that).ret

----------------------------------------------------------------------------
(* Registration *)

NoDuplicates(list) ==
    \A i \in 1 .. Len(list), j \in 1 .. Len(list) : list[i] = list[j] => i = j

\* C11: a batch is bound to at most one registry for its whole life, a registry's
\* list holds exactly the live batches bound to it, each once; recording appends
\* the batch at the tail, and a destroyed batch is in no list.
RegistryHoldsItsLiveOps ==
    /\ [](/\ \A id \in DOMAIN fRTPendingPathsMap :
               /\ NoDuplicates(fRTPendingPathsMap[id].fDrawOps)
               /\ \A o \in OpIds :
                    InSeq(fRTPendingPathsMap[id].fDrawOps, o)
                      <=> (Live(o) /\ ops[o].fOwningRTPendingPaths = id)
          /\ \A o \in OpIds :
               Live(o) /\ ops[o].fOwningRTPendingPaths # 0 =>
                 ops[o].fOwningRTPendingPaths \in DOMAIN fRTPendingPathsMap)
    /\ [][ \A o \in OpIds :
             Live(o) /\ ops'[o].st = "live" =>
               /\ (ops[o].fOwningRTPendingPaths # 0 =>
                     ops'[o].fOwningRTPendingPaths = ops[o].fOwningRTPendingPaths)
               /\ (ops[o].fOwningRTPendingPaths = 0
                   /\ ops'[o].fOwningRTPendingPaths # 0 =>
                     fRTPendingPathsMap'[ops'[o].fOwningRTPendingPaths].fDrawOps =
                       Append(MapAt(fRTPendingPathsMap,
                                    ops'[o].fOwningRTPendingPaths).fDrawOps, o)) ]_vars

\* A recorded batch was destroyed and left its registry's list empty, while the
\* other registry holds two live batches.
RegistryWitness ==
    /\ \E o \in OpIds : ops[o].st = "dead"
    /\ \E id \in DOMAIN fRTPendingPathsMap, other \in DOMAIN fRTPendingPathsMap :
         /\ fRTPendingPathsMap[id].fDrawOps = <<>>
         /\ Len(fRTPendingPathsMap[other].fDrawOps) = 2

----------------------------------------------------------------------------
(* Clip paths: requests interleaved with flushes *)

MaxClipOps == 3

\* The third rectangle is empty.
ClipAccessRects == AccessRects \cup { <<1, 1, 1, 1>> }

\* makeClipProcessor, called by a clip of any render target list for either path.
ClipRequest ==
    \E id \in RTIds, gen \in ClipGenIDs, accessRect \in ClipAccessRects :
      /\ MakeClipProcessorAsserts
      /\ hist.numClipReqs < MaxClipOps
      /\ fRTPendingPathsMap' =
            MakeClipProcessorResult(fRTPendingPathsMap, id, gen, accessRect).map
      /\ hist' = [hist EXCEPT !.numClipReqs = hist.numClipReqs + 1,
                              !.clipRet = [ id |-> id, gen |-> gen,
                                            accessRect |-> accessRect,
                                            mustCheckBounds |->
                                              MakeClipProcessorResult(fRTPendingPathsMap,
                                                id, gen, accessRect).mustCheckBounds ]]
      /\ UNCHANGED <<ops, draws, drawCmds>>
      /\ FlushUnchanged
      /\ RendererOnly

NextClip ==
    \/ ClipRequest
    \/ PreFlush
    \/ PostFlush

SpecClip == Init /\ [][NextClip]_vars

\* Every point of b is a point of a.
Covers(a, b) ==
    \/ RectIsEmpty(b)
    \/ /\ ~RectIsEmpty(a)
       /\ a[1] <= b[1] /\ a[2] <= b[2] /\ a[3] >= b[3] /\ a[4] >= b[4]

ClipEntries(m) ==
    { <<id, gen>> \in RTIds \X ClipGenIDs :
        id \in DOMAIN m /\ gen \in DOMAIN m[id].fClipPaths }

\* C12: the stored access rectangle of a clip path covers every rectangle ever
\* requested for it; a step never makes it smaller nor changes the path bounds
\* of an entry it keeps, and a request adds at most one entry, none when the
\* entry of that render target list and path already exists.
AccessRectOnlyWidens ==
    /\ [](\A e \in ClipEntries(fRTPendingPathsMap) :
            /\ fRTPendingPathsMap[e[1]].fClipPaths[e[2]].init
            /\ fRTPendingPathsMap[e[1]].fClipPaths[e[2]].requested # {}
            /\ \A r \in fRTPendingPathsMap[e[1]].fClipPaths[e[2]].requested :
                 Covers(fRTPendingPathsMap[e[1]].fClipPaths[e[2]].fAccessRect, r))
    /\ [][ /\ \A e \in ClipEntries(fRTPendingPathsMap) \cap ClipEntries(fRTPendingPathsMap') :
                /\ Covers(fRTPendingPathsMap'[e[1]].fClipPaths[e[2]].fAccessRect,
                          fRTPendingPathsMap[e[1]].fClipPaths[e[2]].fAccessRect)
                /\ fRTPendingPathsMap'[e[1]].fClipPaths[e[2]].fPathDevIBounds =
                     fRTPendingPathsMap[e[1]].fClipPaths[e[2]].fPathDevIBounds
                /\ fRTPendingPathsMap[e[1]].fClipPaths[e[2]].requested \subseteq
                     fRTPendingPathsMap'[e[1]].fClipPaths[e[2]].requested
           /\ hist'.numClipReqs # hist.numClipReqs =>
                /\ ClipEntries(fRTPendingPathsMap) \subseteq ClipEntries(fRTPendingPathsMap')
                /\ Cardinality(ClipEntries(fRTPendingPathsMap')) <=
                     Cardinality(ClipEntries(fRTPendingPathsMap)) + 1
                /\ \E e \in ClipEntries(fRTPendingPathsMap') :
                     /\ \A f \in ClipEntries(fRTPendingPathsMap') \ {e} :
                          /\ f \in ClipEntries(fRTPendingPathsMap)
                          /\ fRTPendingPathsMap'[f[1]].fClipPaths[f[2]] =
                               fRTPendingPathsMap[f[1]].fClipPaths[f[2]]
                     /\ (e \in ClipEntries(fRTPendingPathsMap) =>
                           ClipEntries(fRTPendingPathsMap') = ClipEntries(fRTPendingPathsMap))
         ]_vars

\* One entry was requested with each of the three rectangles and holds the
\* largest.
AccessRectWitness ==
    \E e \in ClipEntries(fRTPendingPathsMap) :
      /\ fRTPendingPathsMap[e[1]].fClipPaths[e[2]].requested = ClipAccessRects
      /\ fRTPendingPathsMap[e[1]].fClipPaths[e[2]].fAccessRect = <<0, 0, 3, 3>>
      /\ Cardinality(ClipEntries(fRTPendingPathsMap)) = 1

\* The entry the last makeClipProcessor call found or created.
LastClipPath(m, h) == m[h.clipRet.id].fClipPaths[h.clipRet.gen]

\* C13 as stated: the processor checks bounds exactly when the path bounds do not
\* contain the widened access rectangle of the entry.
MustCheckIffUnionNotContained ==
    [][ hist'.numClipReqs # hist.numClipReqs =>
          (hist'.clipRet.mustCheckBounds <=>
             ~RectContains(LastClipPath(fRTPendingPathsMap', hist').fPathDevIBounds,
                           LastClipPath(fRTPendingPathsMap', hist').fAccessRect)) ]_vars

\* C13: the processor checks bounds exactly when the path bounds do not contain
\* the access rectangle of this request; that is the widened rectangle of the
\* entry for a first request, and whenever the processor need not check the
\* request lies inside the path bounds.
MustCheckIffRequestNotContained ==
    [][ hist'.numClipReqs # hist.numClipReqs =>
          /\ hist'.clipRet.mustCheckBounds <=>
               ~RectContains(LastClipPath(fRTPendingPathsMap', hist').fPathDevIBounds,
                             hist'.clipRet.accessRect)
          /\ <<hist'.clipRet.id, hist'.clipRet.gen>> \notin ClipEntries(fRTPendingPathsMap) =>
               (hist'.clipRet.mustCheckBounds <=>
                  ~RectContains(LastClipPath(fRTPendingPathsMap', hist').fPathDevIBounds,
                                LastClipPath(fRTPendingPathsMap', hist').fAccessRect))
          /\ ~hist'.clipRet.mustCheckBounds =>
               /\ ~RectIsEmpty(hist'.clipRet.accessRect)
               /\ Covers(LastClipPath(fRTPendingPathsMap', hist').fPathDevIBounds,
                         hist'.clipRet.accessRect) ]_vars

\* A repeated request with a rectangle inside the path bounds was told not to
\* check, although the entry's widened rectangle reaches outside the path.
MustCheckWitness ==
    /\ hist.clipRet.id # 0
    /\ hist.clipRet.id \in DOMAIN fRTPendingPathsMap
    /\ hist.clipRet.gen \in DOMAIN fRTPendingPathsMap[hist.clipRet.id].fClipPaths
    /\ ~hist.clipRet.mustCheckBounds
    /\ Cardinality(LastClipPath(fRTPendingPathsMap, hist).requested) >= 2
    /\ ~RectContains(LastClipPath(fRTPendingPathsMap, hist).fPathDevIBounds,
                     LastClipPath(fRTPendingPathsMap, hist).fAccessRect)

\* C14: a clip path is placed in an atlas at most once while it exists, and only
\* by preFlush: a newly created entry is unplaced, a step that is not a preFlush
\* (a clip request, a postFlush) changes the placement of no entry it keeps, and
\* an entry once placed keeps its page and offsets through every later step.
ClipPathPlacedOnceInPreFlush ==
    /\ [](\A e \in ClipEntries(fRTPendingPathsMap) :
            /\ fRTPendingPathsMap[e[1]].fClipPaths[e[2]].numPlaced <= 1
            /\ fRTPendingPathsMap[e[1]].fClipPaths[e[2]].fHasAtlas
                 <=> fRTPendingPathsMap[e[1]].fClipPaths[e[2]].numPlaced = 1)
    /\ [][ /\ \A e \in ClipEntries(fRTPendingPathsMap') \ ClipEntries(fRTPendingPathsMap) :
                fRTPendingPathsMap'[e[1]].fClipPaths[e[2]].numPlaced = 0
           /\ \A e \in ClipEntries(fRTPendingPathsMap) \cap ClipEntries(fRTPendingPathsMap') :
                /\ fRTPendingPathsMap'[e[1]].fClipPaths[e[2]].numPlaced >=
                     fRTPendingPathsMap[e[1]].fClipPaths[e[2]].numPlaced
                /\ fRTPendingPathsMap'[e[1]].fClipPaths[e[2]].numPlaced #
                     fRTPendingPathsMap[e[1]].fClipPaths[e[2]].numPlaced =>
                       hist'.numPre = hist.numPre + 1
                /\ fRTPendingPathsMap[e[1]].fClipPaths[e[2]].numPlaced = 1 =>
                     /\ fRTPendingPathsMap'[e[1]].fClipPaths[e[2]].fAtlas =
                          fRTPendingPathsMap[e[1]].fClipPaths[e[2]].fAtlas
                     /\ fRTPendingPathsMap'[e[1]].fClipPaths[e[2]].fAtlasOffsetX =
                          fRTPendingPathsMap[e[1]].fClipPaths[e[2]].fAtlasOffsetX
                     /\ fRTPendingPathsMap'[e[1]].fClipPaths[e[2]].fAtlasOffsetY =
                          fRTPendingPathsMap[e[1]].fClipPaths[e[2]].fAtlasOffsetY
         ]_vars

\* A second flush is in progress after a postFlush that did not name the first
\* render target list: the entry placed by the first flush is still there,
\* placed once, beside an entry of the other list that the second flush placed.
ClipPathPlacedWitness ==
    /\ fFlushing /\ hist.numPre = 2 /\ hist.numPost = 1
    /\ ClipEntries(fRTPendingPathsMap) = { <<1, 1>>, <<2, 1>> }
    /\ fRTPendingPathsMap[1].fClipPaths[1].numPlaced = 1
    /\ fRTPendingPathsMap[1].fClipPaths[1].fAtlas = 1
    /\ fRTPendingPathsMap[2].fClipPaths[1].numPlaced = 1
    /\ Cardinality(fRTPendingPathsMap[1].fClipPaths[1].requested) = 2

----------------------------------------------------------------------------
(* Placement in the atlas *)

\* The last path is wider than an atlas page can get.
AtlasShapes ==
    { <<PathInside, ClipAll>>, <<PathInside, ClipAway>>, << <<0, 0, 3, 1>>, ClipAll >> }

NextAtlas ==
    \/ OnDrawPath(FlushPaints, AtlasShapes, MaxFlushOps)
    \/ DeleteOp
    \/ PreFlush
    \/ OnExecute
    \/ PostFlush

SpecAtlas == Init /\ [][NextAtlas]_vars

\* clippedPathIBounds of a path that is not rejected.
ClippedPathIBounds(clipIBounds, pathIBounds) ==
    IF RectContains(clipIBounds, pathIBounds) THEN pathIBounds
    ELSE RectIntersection(clipIBounds, pathIBounds)

\* The ops the flush in progress has set up.
SetUpOps == { o \in OpIds : Live(o) /\ ops[o].setupFlush = hist.numPre }

NodesOf(o) == { Walk(draws, o)[i] : i \in 1 .. Len(Walk(draws, o)) }

\* The instances the flush wrote for SingleDraw n.
InstancesFor(n) ==
    { i \in 1 .. Len(fPerFlushInstanceBuffer.data) :
        fPerFlushInstanceBuffer.data[i].node = n }

\* C15: placement returns no page exactly when the path bounds do not intersect
\* the clip bounds, and then leaves pages and coverage ops as they were; an op
\* set up by the flush has one instance for each of its draws whose bounds
\* intersect the clip and none for the others, which are the ones it counts as
\* skipped, wherever in the op's list they stand.
RejectsExactlyTheClippedAway ==
    FlushFilled =>
      /\ \A shape \in AtlasShapes \cup Shapes, junk \in JunkLocations :
           /\ PlaceParsedPathInAtlas(fPerFlushAtlases, flushInfo.emitted,
                                     shape[2], shape[1], junk).atlas = 0
                <=> ~RectIntersects(shape[2], shape[1])
           /\ ~RectIntersects(shape[2], shape[1]) =>
                PlaceParsedPathInAtlas(fPerFlushAtlases, flushInfo.emitted,
                                       shape[2], shape[1], junk)
                  = [ atlas |-> 0, offX |-> 0, offY |-> 0,
                      atlases |-> fPerFlushAtlases, emitted |-> flushInfo.emitted ]
      /\ \A o \in SetUpOps :
           /\ \A n \in NodesOf(o) :
                Cardinality(InstancesFor(n)) =
                  IF RectIntersects(draws[n].fClipIBounds, draws[n].path) THEN 1 ELSE 0
           /\ ops[o].fNumSkippedInstances =
                Cardinality({ n \in NodesOf(o) :
                                ~RectIntersects(draws[n].fClipIBounds, draws[n].path) })

\* An op of two draws skipped its first, clipped away, and wrote its second.
RejectsWitness ==
    /\ FlushFilled
    /\ \E o \in SetUpOps :
         /\ ops[o].fInstanceCount = 2
         /\ ops[o].fNumSkippedInstances = 1
         /\ ~RectIntersects(draws[o].fClipIBounds, draws[o].path)
         /\ InstancesFor(draws[o].fNext) # {}

\* Whether a fresh page takes the clipped bounds of SingleDraw n.
FitsNewPage(n) ==
    AtlasFits(NewAtlas,
              Width(ClippedPathIBounds(draws[n].fClipIBounds, draws[n].path)),
              Height(ClippedPathIBounds(draws[n].fClipIBounds, draws[n].path)))

\* C16 as stated: a path that a fresh page cannot take is skipped: the flush
\* wrote no instance for it, and every atlas offset written places the path's
\* clipped bounds at a location inside a page.
NewPageFailureSkipsThePath ==
    FlushFilled =>
      \A o \in SetUpOps : \A n \in NodesOf(o) :
        /\ RectIntersects(draws[n].fClipIBounds, draws[n].path) /\ ~FitsNewPage(n) =>
             InstancesFor(n) = {}
        /\ \A i \in InstancesFor(n) :
             /\ fPerFlushInstanceBuffer.data[i].offX
                  + ClippedPathIBounds(draws[n].fClipIBounds, draws[n].path)[1]
                    \in 0 .. MaxAtlasSize - 1
             /\ fPerFlushInstanceBuffer.data[i].offY
                  + ClippedPathIBounds(draws[n].fClipIBounds, draws[n].path)[2]
                    \in 0 .. MaxAtlasSize - 1

\* What the code does with such a path: it is written, on a page of its own that
\* holds nothing, at whatever the location variable held.
OversizePathWritten ==
    /\ FlushFilled
    /\ \E o \in SetUpOps : \E n \in NodesOf(o) :
         /\ ~FitsNewPage(n)
         /\ \E i \in InstancesFor(n) :
              /\ fPerFlushInstanceBuffer.data[i].offX = 7
              /\ fPerFlushAtlases[fPerFlushInstanceBuffer.data[i].atlas].w = 0
         /\ ops[o].fNumSkippedInstances = 0

----------------------------------------------------------------------------
(* A flush with nothing to draw *)

\* A step that is a preFlush finding nothing pending: no registry at all, or no
\* path counted in the registries it was given.
NothingPendingPreFlush ==
    /\ hist'.numPre = hist.numPre + 1
    /\ \/ DOMAIN fRTPendingPathsMap = {}
       \/ flushInfo'.counted /\ flushInfo'.maxTotalPaths = 0

\* C17 as stated: a preFlush that finds nothing pending leaves the coordinator
\* idle, with no buffer and no page, and ready to accept the next preFlush.
EmptyPreFlushStaysIdle ==
    [][ NothingPendingPreFlush =>
          /\ ~fFlushing'
          /\ BuffersReleased'
          /\ PreFlushAsserts' ]_vars

\* C17: a preFlush that finds nothing pending allocates no buffer, creates no
\* page and leaves ops, draws and registries as they were, but it does mark the
\* flush as in progress, so that the next preFlush is refused until a postFlush
\* has been called.
EmptyPreFlushAllocatesNothing ==
    /\ [][ NothingPendingPreFlush =>
             /\ BuffersReleased'
             /\ UNCHANGED <<ops, draws, fRTPendingPathsMap>>
             /\ fFlushing'
             /\ ~PreFlushAsserts'
             /\ PostFlushAsserts' ]_vars
    /\ [][ hist'.numPre = hist.numPre + 1 /\ ~NothingPendingPreFlush =>
             fPerFlushIndexBuffer' \/ flushInfo'.failAt = "index" ]_vars

\* The second preFlush named a render target list without registry while the
\* other list holds an op: nothing was counted, nothing allocated, and the
\* flush is in progress.
EmptyPreFlushWitness ==
    /\ fFlushing
    /\ hist.numPre = 2
    /\ flushInfo.counted /\ flushInfo.maxTotalPaths = 0
    /\ BuffersReleased
    /\ \E id \in DOMAIN fRTPendingPathsMap : fRTPendingPathsMap[id].fDrawOps # <<>>

----------------------------------------------------------------------------
(* Cropping of large paths *)

MaxCropOps == 2

\* Local bounds at the crop threshold, just above it in width and in height, and
\* above it only once scaled by two; each with a clip it overlaps and one it
\* does not.
CropShapes ==
    { <<0, 0, 65536, 1>>, <<0, 0, 65537, 1>>, <<0, 0, 1, 65537>>, <<0, 0, 32769, 1>> }
      \X { ClipAll, ClipAway }

\* Identity, a scale by two, and a shift to the left that leaves one column of a
\* path just over the threshold on screen.
ViewMatrices == { IdentityMatrix, <<2, 0, 0>>, <<1, -65536, 0>> }

\* onDrawPath of a shape with a view matrix; the new op is recorded.
DrawLargePath ==
    /\ OnDrawPathAsserts
    /\ NumCreated < MaxCropOps
    /\ \E shape \in CropShapes, viewMatrix \in ViewMatrices, opFails \in BOOLEAN,
          id \in RTIds :
         /\ FinalizeAsserts(ConstructOpWith(ops, draws, NumCreated + 1, PaintBase,
                                            shape, viewMatrix, opFails).ops,
                            fFlushing, NumCreated + 1)
         /\ ops' = RecordOp(FinalizeOp(ConstructOpWith(ops, draws, NumCreated + 1,
                                         PaintBase, shape, viewMatrix, opFails).ops,
                                       NumCreated + 1),
                            fRTPendingPathsMap, NumCreated + 1, id).ops
         /\ fRTPendingPathsMap' =
              RecordOp(FinalizeOp(ConstructOpWith(ops, draws, NumCreated + 1,
                                    PaintBase, shape, viewMatrix, opFails).ops,
                                  NumCreated + 1),
                       fRTPendingPathsMap, NumCreated + 1, id).map
         /\ draws' = ConstructOpWith(ops, draws, NumCreated + 1, PaintBase, shape,
                                     viewMatrix, opFails).draws
    /\ UNCHANGED hist
    /\ FlushUnchanged
    /\ RendererOnly

NextCrop ==
    \/ DrawLargePath
    \/ DeleteOp

SpecCrop == Init /\ [][NextCrop]_vars

\* The device-space bounds of what the draw was given.
ArgsDevBounds(draw) == MapRect(draw.args.fViewMatrix, draw.args.bounds)

\* C18 as stated: above the threshold the stored path is the transformed path
\* intersected with the clip bounds, under the identity matrix, and lies within
\* the clip bounds; at or below it path and matrix are stored as given.
CropStoresIntersection ==
    \A n \in DOMAIN draws :
      IF NeedsCrop(ArgsDevBounds(draws[n]))
      THEN /\ draws[n].fMatrix = IdentityMatrix
           /\ draws[n].path = PathOpIntersect(draws[n].fClipIBounds,
                                              ArgsDevBounds(draws[n]))
           /\ Covers(draws[n].fClipIBounds, draws[n].path)
      ELSE /\ draws[n].fMatrix = draws[n].args.fViewMatrix
           /\ draws[n].path = draws[n].args.bounds

\* C18: above the threshold the stored path is the transformed path intersected
\* with the clip bounds, or the empty path when the path operation failed, under
\* the identity matrix; either way it lies within the clip bounds and the op's
\* bounds are those of the stored path.  At or below the threshold path and
\* matrix are stored as given.
CropStoresIntersectionOrEmpty ==
    \A n \in DOMAIN draws :
      IF NeedsCrop(ArgsDevBounds(draws[n]))
      THEN /\ draws[n].fMatrix = IdentityMatrix
           /\ \/ draws[n].path = PathOpIntersect(draws[n].fClipIBounds,
                                                 ArgsDevBounds(draws[n]))
              \/ draws[n].path = EmptyPathBounds
           /\ Covers(draws[n].fClipIBounds, draws[n].path)
           /\ Covers(ArgsDevBounds(draws[n]), draws[n].path)
           /\ Live(n) => ops[n].bounds = draws[n].path
      ELSE /\ draws[n].fMatrix = draws[n].args.fViewMatrix
           /\ draws[n].path = draws[n].args.bounds
           /\ Live(n) => ops[n].bounds = ArgsDevBounds(draws[n])

\* A path under the threshold in local space was scaled over it and cropped to
\* the clip, beside a path exactly at the threshold that was stored as given.
CropWitness ==
    \E a \in DOMAIN draws, b \in DOMAIN draws :
      /\ draws[a].args = [ fViewMatrix |-> <<2, 0, 0>>, bounds |-> <<0, 0, 32769, 1>> ]
      /\ draws[a].fMatrix = IdentityMatrix
      /\ draws[a].path = <<0, 0, 4, 2>>
      /\ draws[b].args.bounds = <<0, 0, 65536, 1>>
      /\ draws[b].path = <<0, 0, 65536, 1>>

----------------------------------------------------------------------------
(* onCanDrawPath *)

\* How many of the properties that make the renderer refuse a path a query has.
NumRefusals(a) ==
    (IF a.isSimpleFill THEN 0 ELSE 1) + (IF a.inverseFilled THEN 1 ELSE 0)
    + (IF a.hasPerspective THEN 1 ELSE 0) + (IF a.fAAType = "coverage" THEN 0 ELSE 1)
    + a.conicWeightCnt

\* CanDrawPathArgs: the shape (its key, style, fill, conics, verbs and bounds),
\* the view matrix, the anti-aliasing type and the clip's conservative bounds;
\* the queries with at most one of the refused properties.
CanDrawArgs ==
    { a \in [ hasUnstyledKey : BOOLEAN, isSimpleFill : BOOLEAN,
              inverseFilled : BOOLEAN, hasPerspective : BOOLEAN,
              fAAType : {"coverage", "msaa"}, conicWeightCnt : {0, 1},
              countVerbs : {50, 51},
              bounds : { PathInside, <<0, 0, 256, 256>>, <<0, 0, 257, 256>>,
                         <<0, 0, 1000, 1000>> },
              fViewMatrix : {IdentityMatrix, <<2, 0, 0>>},
              fClipConservativeBounds : {ClipAll, <<0, 0, 300, 300>>, ClipAway} ] :
        NumRefusals(a) <= 1 }

Area(r) == Height(r) * Width(r)

\* (mutant) the area is that of the whole device bounds
PathIsLarge_Unclipped(devIBounds, clipBounds) == Area(devIBounds) > 256 * 256

\* Line 87, reached when the rectangles intersect: devIBounds was replaced by
\* its intersection with the clip bounds at line 81.
PathIsLarge(devIBounds, clipBounds) ==
    Area(RectIntersection(devIBounds, clipBounds)) > 256 * 256

CanDrawPath(args, drawCachablePaths) ==
    IF args.hasUnstyledKey /\ ~drawCachablePaths THEN "no"
    ELSE IF \/ ~args.isSimpleFill
            \/ args.inverseFilled
            \/ args.hasPerspective
            \/ args.fAAType # "coverage" THEN "no"
    ELSE IF args.conicWeightCnt # 0 THEN "no"
    ELSE IF ~RectIntersects(MapRect(args.fViewMatrix, args.bounds),
                            args.fClipConservativeBounds) THEN "yes"
    ELSE IF PathIsLarge(MapRect(args.fViewMatrix, args.bounds),
                        args.fClipConservativeBounds) THEN "backup"
    ELSE IF args.hasUnstyledKey /\ args.countVerbs > 50 THEN "backup"
    ELSE "yes"

\* The path renderer chain asks whether the renderer can draw a path.
OnCanDrawPath ==
    /\ \E args \in CanDrawArgs :
         canDrawRet' = [ asked |-> TRUE, args |-> args,
                         ret |-> CanDrawPath(args, fDrawCachablePaths) ]
    /\ UNCHANGED <<ops, draws, fRTPendingPathsMap, hist, fDrawCachablePaths,
                   fOriginalTexture, fOwningContextID, messageBus, contexts, genHist>>
    /\ FlushUnchanged

\* A renderer made with either value of drawCachablePaths.
InitCanDraw ==
    /\ RendererInit
    /\ fDrawCachablePaths \in BOOLEAN
    /\ canDrawRet = NoCanDraw
    /\ GeneratorInit(TRUE)

NextCanDraw == OnCanDrawPath

SpecCanDraw == InitCanDraw /\ [][NextCanDraw]_vars

\* The queries that are not refused outright.
NotRefused(args) ==
    /\ args.isSimpleFill /\ ~args.inverseFilled /\ ~args.hasPerspective
    /\ args.fAAType = "coverage"
    /\ args.conicWeightCnt = 0
    /\ args.hasUnstyledKey => fDrawCachablePaths

QueryDevBounds == MapRect(canDrawRet.args.fViewMatrix, canDrawRet.args.bounds)

\* C19 as stated: a query that is not refused is answered backup exactly when the
\* device bounds of the path have an area over 256 x 256 or the path is
\* cacheable with more than 50 verbs, and yes otherwise.
BackupIffLargeOrComplex ==
    canDrawRet.asked /\ NotRefused(canDrawRet.args) =>
      canDrawRet.ret =
        IF \/ Area(QueryDevBounds) > 256 * 256
           \/ canDrawRet.args.hasUnstyledKey /\ canDrawRet.args.countVerbs > 50
        THEN "backup" ELSE "yes"

\* C19: a query that is not refused is answered yes when the device bounds of the
\* path do not intersect the clip bounds, whatever its size and verbs; otherwise
\* backup exactly when the part of the device bounds inside the clip bounds has
\* an area over 256 x 256 or the path is cacheable with more than 50 verbs, and
\* yes otherwise.  Every other query is refused.
BackupIffLargeInClipOrComplex ==
    canDrawRet.asked =>
      IF ~NotRefused(canDrawRet.args) THEN canDrawRet.ret = "no"
      ELSE IF ~RectIntersects(QueryDevBounds, canDrawRet.args.fClipConservativeBounds)
      THEN canDrawRet.ret = "yes"
      ELSE canDrawRet.ret =
             IF \/ Area(RectIntersection(QueryDevBounds,
                                         canDrawRet.args.fClipConservativeBounds))
                     > 256 * 256
                \/ canDrawRet.args.hasUnstyledKey /\ canDrawRet.args.countVerbs > 50
             THEN "backup" ELSE "yes"

\* A path far over the size limit, of which the clip leaves a corner, was
\* answered yes.
CanDrawWitness ==
    /\ canDrawRet.asked
    /\ canDrawRet.ret = "yes"
    /\ Area(QueryDevBounds) > 256 * 256
    /\ RectIntersects(QueryDevBounds, canDrawRet.args.fClipConservativeBounds)

----------------------------------------------------------------------------
(* The hardware buffer image generator *)

MaxGenerateCalls == 3

\* The generator and what it acts on, as one value.
Generator ==
    [ fOriginalTexture |-> fOriginalTexture, fOwningContextID |-> fOwningContextID,
      messageBus |-> messageBus, contexts |-> contexts, genHist |-> genHist ]

\* clear() that drops the cached texture without posting its message
Clear_NoMessage(g) ==
    IF g.fOriginalTexture # 0 THEN [g EXCEPT !.fOriginalTexture = 0] ELSE g

\* clear
Clear(g) ==
    IF g.fOriginalTexture # 0
    THEN [g EXCEPT !.messageBus =
                       Append(@, [ fResource |-> g.fOriginalTexture,
                                   fOwningUniqueID |-> g.fOwningContextID ]),
                   !.fOriginalTexture = 0]
    ELSE g

\* The first check of makeProxy and of make_backend_texture.
ContextUsable(g, context) ==
    ~g.contexts[context].abandoned /\ g.contexts[context].backend = "gl"

Returning(g, ret) == [g EXCEPT !.genHist.ret = ret]

\* makeProxy from the point where the backend texture was wrapped: the assertion
\* that nothing is cached, then the switch of the cache to the new texture.
AdoptTexture(g, context, tex) ==
    IF g.genHist.debug /\ g.fOriginalTexture # 0
    THEN [g EXCEPT !.genHist.aborted = TRUE, !.genHist.numTextures = tex,
                   !.genHist.numImports = @ + 1, !.genHist.ret = 0]
    ELSE [Clear(g) EXCEPT !.fOriginalTexture = tex,
                          !.fOwningContextID = context,
                          !.contexts[context].crossContext = @ \cup {tex},
                          !.genHist.numTextures = tex,
                          !.genHist.numImports = @ + 1,
                          !.genHist.cached = @ \cup {<<tex, context>>},
                          !.genHist.ret = tex]

\* makeProxy.  importOk: make_gl_backend_texture gives a valid texture; wrapOk:
\* wrapBackendTexture gives a texture.  ret is the texture of the proxy
\* returned, 0 for nullptr.
MakeProxy(g, context, importOk, wrapOk) ==
    IF ~ContextUsable(g, context) THEN Returning(g, 0)
    ELSE IF g.fOriginalTexture # 0 /\ g.fOwningContextID = context
    THEN Returning(g, g.fOriginalTexture)
    ELSE IF ~importOk THEN Returning(g, 0)
    ELSE IF ~wrapOk THEN Returning(g, 0)
    ELSE AdoptTexture(g, context, g.genHist.numTextures + 1)

\* onGenerateTexture after makeProxy returned p's proxy.  mode: the full image,
\* the full image with mip maps, or a subset.
AfterMakeProxy(p, context, mode, copyOk, instOk) ==
    IF p.genHist.aborted \/ p.genHist.ret = 0 THEN p
    ELSE IF mode = "full" \/ (mode = "fullMips" /\ p.genHist.ret \in p.genHist.mipped)
    THEN p
    ELSE IF ~copyOk THEN Returning(p, 0)
    ELSE IF mode = "subset"
    THEN [p EXCEPT !.genHist.numTextures = @ + 1, !.genHist.ret = p.genHist.numTextures + 1]
    ELSE IF p.genHist.debug /\ (context # p.fOwningContextID \/ ~instOk)
    THEN [p EXCEPT !.genHist.aborted = TRUE, !.genHist.ret = 0]
    ELSE [Clear(p) EXCEPT !.fOriginalTexture = IF instOk THEN p.genHist.numTextures + 1
                                               ELSE 0,
                          !.genHist.numTextures = @ + 1,
                          !.genHist.mipped = @ \cup {p.genHist.numTextures + 1},
                          !.genHist.cached = @ \cup
                              (IF instOk
                               THEN {<<p.genHist.numTextures + 1, p.fOwningContextID>>}
                               ELSE {}),
                          !.genHist.ret = p.genHist.numTextures + 1]

GeneratorRuns == genHist.alive /\ ~genHist.aborted

\* onGenerateTexture
OnGenerateTexture ==
    /\ GeneratorRuns
    /\ genHist.numCalls < MaxGenerateCalls
    /\ \E context \in ContextIds, importOk \in BOOLEAN, wrapOk \in BOOLEAN,
          mode \in {"full", "fullMips", "subset"}, copyOk \in BOOLEAN,
          instOk \in BOOLEAN :
         /\ fOriginalTexture' =
              AfterMakeProxy(MakeProxy(Generator, context, importOk, wrapOk),
                             context, mode, copyOk, instOk).fOriginalTexture
         /\ fOwningContextID' =
              AfterMakeProxy(MakeProxy(Generator, context, importOk, wrapOk),
                             context, mode, copyOk, instOk).fOwningContextID
         /\ messageBus' =
              AfterMakeProxy(MakeProxy(Generator, context, importOk, wrapOk),
                             context, mode, copyOk, instOk).messageBus
         /\ contexts' =
              AfterMakeProxy(MakeProxy(Generator, context, importOk, wrapOk),
                             context, mode, copyOk, instOk).contexts
         /\ genHist' =
              [AfterMakeProxy(MakeProxy(Generator, context, importOk, wrapOk),
                              context, mode, copyOk, instOk).genHist
                 EXCEPT !.numCalls = @ + 1, !.context = context]
    /\ UNCHANGED <<ops, draws, fRTPendingPathsMap, hist, fDrawCachablePaths, canDrawRet>>
    /\ FlushUnchanged

\* The client abandons a context.
AbandonContext ==
    /\ GeneratorRuns
    /\ \E c \in ContextIds :
         /\ ~contexts[c].abandoned
         /\ contexts' = [contexts EXCEPT ![c].abandoned = TRUE]
    /\ UNCHANGED <<ops, draws, fRTPendingPathsMap, hist, fDrawCachablePaths, canDrawRet,
                   fOriginalTexture, fOwningContextID, messageBus, genHist>>
    /\ FlushUnchanged

\* The destructor.
DestroyGenerator ==
    /\ GeneratorRuns
    /\ fOriginalTexture' = 0
    /\ messageBus' = Clear(Generator).messageBus
    /\ genHist' = [genHist EXCEPT !.alive = FALSE]
    /\ UNCHANGED <<ops, draws, fRTPendingPathsMap, hist, fDrawCachablePaths, canDrawRet,
                   fOwningContextID, contexts>>
    /\ FlushUnchanged

InitGenerator ==
    /\ RendererInit
    /\ fDrawCachablePaths = TRUE
    /\ canDrawRet = NoCanDraw
    /\ \E debug \in BOOLEAN : GeneratorInit(debug)

NextGenerator ==
    \/ OnGenerateTexture
    \/ AbandonContext
    \/ DestroyGenerator

SpecGenerator == InitGenerator /\ [][NextGenerator]_vars

\* C20 as stated: makeProxy with the context of the cached texture returns that
\* texture and imports nothing; makeProxy with another usable context, when its
\* import succeeds, posts a free message for the cached texture addressed to the
\* context that owned it and leaves the new texture cached under the new
\* context's id.
SwitchingContextImportsAgain ==
    GeneratorRuns /\ fOriginalTexture # 0 =>
      \A context \in ContextIds :
        ContextUsable(Generator, context) =>
          IF context = fOwningContextID
          THEN /\ MakeProxy(Generator, context, TRUE, TRUE).genHist.ret = fOriginalTexture
               /\ MakeProxy(Generator, context, TRUE, TRUE)
                    = Returning(Generator, fOriginalTexture)
          ELSE /\ ~MakeProxy(Generator, context, TRUE, TRUE).genHist.aborted
               /\ MakeProxy(Generator, context, TRUE, TRUE).genHist.numImports
                    = genHist.numImports + 1
               /\ MakeProxy(Generator, context, TRUE, TRUE).messageBus
                    = Append(messageBus, [ fResource |-> fOriginalTexture,
                                           fOwningUniqueID |-> fOwningContextID ])
               /\ MakeProxy(Generator, context, TRUE, TRUE).fOriginalTexture
                    \notin {0, fOriginalTexture}
               /\ MakeProxy(Generator, context, TRUE, TRUE).fOwningContextID = context

\* In a build with assertions, a texture is cached for one context and a call
\* with another usable context imported a texture and then stopped at the
\* assertion that nothing is cached: no message was posted and the cache is as
\* it was.
ContextSwitchAborted ==
    /\ genHist.debug /\ genHist.aborted
    /\ fOriginalTexture # 0
    /\ genHist.context # fOwningContextID
    /\ ContextUsable(Generator, genHist.context)
    /\ genHist.numImports = 2
    /\ messageBus = <<>>


\* ---------------------------------------------------------------------------
\* Release of cached textures (clear, lines 68-76; its callers at 116, 284
\* and in the destructor, 63-66).  genHist.cached is the set of
\* <<texture, owning context>> pairs the generator ever stored in
\* fOriginalTexture.

MessagesFor(tex) == { i \in 1..Len(messageBus) : messageBus[i].fResource = tex }

\* The cached texture has no message yet; every texture that was cached and
\* is no longer cached has exactly one message, addressed to its owner; while
\* the generator has not aborted nothing else has a message.
CachedTexturesReleasedOnce ==
    /\ \A pr \in genHist.cached :
          IF pr[1] = fOriginalTexture
          THEN MessagesFor(pr[1]) = {} /\ pr[2] = fOwningContextID
          ELSE /\ Cardinality(MessagesFor(pr[1])) = 1
               /\ \A i \in MessagesFor(pr[1]) : messageBus[i].fOwningUniqueID = pr[2]
    /\ \A i \in 1..Len(messageBus) :
          \E pr \in genHist.cached : pr[1] = messageBus[i].fResource
    /\ fOriginalTexture # 0 => \E pr \in genHist.cached : pr[1] = fOriginalTexture
    /\ ~genHist.alive => fOriginalTexture = 0

\* The cached texture is only ever dropped by posting its message: a call
\* that replaces or drops the texture cached before it posts that texture's
\* message first, every other message it posts is for a texture it cached
\* itself (an import replaced by its mip-mapped copy in the same call), and
\* no call removes or rewrites a posted message.
CachedTextureDroppedByMessage ==
    /\ Len(messageBus') >= Len(messageBus)
    /\ SubSeq(messageBus', 1, Len(messageBus)) = messageBus
    /\ (fOriginalTexture # 0 /\ fOriginalTexture' # fOriginalTexture)
          => /\ Len(messageBus') > Len(messageBus)
             /\ messageBus'[Len(messageBus) + 1] =
                    [fResource |-> fOriginalTexture,
                     fOwningUniqueID |-> fOwningContextID]
    /\ \A i \in (Len(messageBus) + 1)..Len(messageBus') :
          \/ messageBus'[i].fResource = fOriginalTexture /\ fOriginalTexture # 0
          \/ \E pr \in genHist'.cached \ genHist.cached :
                 pr[1] = messageBus'[i].fResource

\* C21: over any sequence of makeProxy, onGenerateTexture (with or without mip
\* replacement) and destruction, each cached texture is released by exactly
\* one posted free message carrying the id of the context that owns it, never
\* synchronously, and a destroyed generator leaves no cached texture without
\* its message.
CachedTextureFreedByOneMessage ==
    []CachedTexturesReleasedOnce /\ [][CachedTextureDroppedByMessage]_vars

\* A destroyed generator that cached three textures: one imported in context 1,
\* one imported after a switch to context 2, one mip-mapped copy
CachedTextureFreedWitness ==
    /\ ~genHist.alive
    /\ Len(messageBus) = 3
    /\ genHist.mipped # {}
    /\ \E i, j \in 1..3 : messageBus[i].fOwningUniqueID # messageBus[j].fOwningUniqueID


\* ---------------------------------------------------------------------------
\* Free messages and the cross-context resource cache
\* (insertCrossContextGpuResource, line 291, is the only insertion).

\* C26: every free message the generator posts names a texture that was
\* previously inserted into its owning context's cross-context resource
\* cache, the mip-mapped full-size copy that replaces the cached texture
\* included.
FreeMessagesNameInsertedTextures ==
    \A i \in 1..Len(messageBus) :
        messageBus[i].fResource \in
            contexts[messageBus[i].fOwningUniqueID].crossContext

\* A free message for a mip-mapped copy that no cross-context cache holds
MipCopyFreedUninserted ==
    \E i \in 1..Len(messageBus) :
        /\ messageBus[i].fResource \in genHist.mipped
        /\ \A c \in ContextIds : messageBus[i].fResource \notin contexts[c].crossContext


\* ---------------------------------------------------------------------------
\* Registration and the flush (SkASSERT(!fFlushing) at 102, 156, 169, 192, 214).

SurvivesStep(o) == ops[o].st = "live" /\ ops'[o].st = "live"

\* A step taken inside a flush (not the preFlush that opens it nor the
\* postFlush that closes it) creates no draw, finalizes, records and merges no
\* batch and registers no clip request; the registries lose the destroyed
\* batches and are otherwise what preFlush counted.
RegistrationFrozen ==
    (fFlushing /\ fFlushing') =>
        /\ \A o \in OpIds : ops[o].st = "none" => ops'[o].st = "none"
        /\ hist'.numClipReqs = hist.numClipReqs
        /\ hist'.clipRet = hist.clipRet
        /\ \A o \in OpIds : SurvivesStep(o) =>
              /\ ops'[o].finalized = ops[o].finalized
              /\ ops'[o].fOwningRTPendingPaths = ops[o].fOwningRTPendingPaths
              /\ ops'[o].fTailDraw = ops[o].fTailDraw
              /\ ops'[o].fInstanceCount = ops[o].fInstanceCount
        /\ \A n \in DOMAIN draws' : n \in DOMAIN draws /\ draws'[n] = draws[n]
        /\ DOMAIN fRTPendingPathsMap' = DOMAIN fRTPendingPathsMap
        /\ \A id \in DOMAIN fRTPendingPathsMap :
              /\ fRTPendingPathsMap'[id].fClipPaths = fRTPendingPathsMap[id].fClipPaths
              /\ fRTPendingPathsMap'[id].fDrawsAllocator =
                    fRTPendingPathsMap[id].fDrawsAllocator
              /\ fRTPendingPathsMap'[id].fDrawOps =
                    SelectSeq(fRTPendingPathsMap[id].fDrawOps,
                              LAMBDA o : ops'[o].st = "live")

\* C22: draw registration is confined to the Idle state: creating or enqueuing
\* a draw, finalizing, recording and merging batches and requesting a clip
\* processor are rejected while Flushing, so between preFlush and postFlush
\* the registry contents change only by batch destruction.
RegistrationConfinedToIdle == [][RegistrationFrozen]_vars

\* Inside a flush that set up two batches of one registry, one of them has
\* been destroyed and the other is still recorded
RegistrationWitness ==
    /\ fFlushing
    /\ flushInfo.counted
    /\ \E k \in 1 .. Len(fPerFlushInstanceBuffer.data) :
         fPerFlushInstanceBuffer.data[k].node \notin DOMAIN draws
    /\ \E b \in OpIds :
         /\ Live(b) /\ ops[b].setupFlush = hist.numPre
         /\ ops[b].fOwningRTPendingPaths # 0
         /\ InSeq(fRTPendingPathsMap[ops[b].fOwningRTPendingPaths].fDrawOps, b)


\* ---------------------------------------------------------------------------
\* Atlas pages and their coverage ops (placeParsedPathInAtlas 492-506, the
\* last emitOp 380-382).

\* The coverage ops emitted when the placement loop ended, before the last
\* page was sealed.
OpenEmitted ==
    IF fPerFlushAtlases = <<>> THEN <<>>
    ELSE SubSeq(flushInfo.emitted, 1, Len(fPerFlushAtlases) - 1)

PlacementInputs == Shapes \cup { << <<0, 0, 3, 1>>, ClipAll >> }

\* One more placement p made from pages `atlases` with ops `emitted`: it goes
\* to the last page, leaves every page that is not the last one as it was,
\* and emits an op only when it appends a page, then for the page it replaces.
PlacementKeepsSealedPages(atlases, emitted, p) ==
    IF p.atlas = 0 THEN p.atlases = atlases /\ p.emitted = emitted
    ELSE /\ p.atlas = Len(p.atlases)
         /\ Len(p.atlases) \in {Len(atlases), Len(atlases) + 1}
         /\ Len(p.atlases) >= 1
         /\ \A k \in 1 .. Len(atlases) : k < p.atlas => p.atlases[k] = atlases[k]
         /\ p.emitted =
               IF Len(p.atlases) = Len(atlases) + 1 /\ atlases # <<>>
               THEN Append(emitted, AtlasDrawBounds(atlases[Len(atlases)]))
               ELSE emitted

\* C23: a sealed atlas page accepts no further placements: every placement goes
\* to the most recently created page, and a page is sealed only when a newer
\* page replaces it or at the end of the placement loop.  In a filled flush
\* the instances name their pages in non-decreasing order, every page is
\* sealed with the bounds it ends the flush with, and any further placement
\* would again land on the last page.
SealedPageTakesNoPlacement ==
    FlushFilled =>
      /\ \A i \in 1 .. Len(fPerFlushInstanceBuffer.data) :
           /\ fPerFlushInstanceBuffer.data[i].atlas \in 1 .. Len(fPerFlushAtlases)
           /\ \A j \in 1 .. Len(fPerFlushInstanceBuffer.data) :
                i < j => fPerFlushInstanceBuffer.data[i].atlas
                            <= fPerFlushInstanceBuffer.data[j].atlas
      /\ \A k \in 1 .. Len(fPerFlushAtlases) :
           /\ k <= Len(flushInfo.emitted)
           /\ flushInfo.emitted[k] = AtlasDrawBounds(fPerFlushAtlases[k])
      /\ \A shape \in PlacementInputs, junk \in JunkLocations :
           PlacementKeepsSealedPages(fPerFlushAtlases, OpenEmitted,
               PlaceParsedPathInAtlas(fPerFlushAtlases, OpenEmitted,
                                      shape[2], shape[1], junk))

\* A filled flush with two pages, the first sealed with room left in it
SealedPageWitness ==
    /\ FlushFilled
    /\ Len(fPerFlushAtlases) = 2
    /\ Len(fPerFlushInstanceBuffer.data) = 2
    /\ AtlasFits(fPerFlushAtlases[1], 1, 1)


\* Two further placements q after p, from the state the placement loop ended in:
\* the ops emitted stay one short of the pages and keep their order, and the
\* seal after the loop brings them level.
SealsFollowPages(atlases, emitted, p) ==
    /\ Len(p.atlases) > 0 => Len(p.emitted) = Len(p.atlases) - 1
    /\ Len(p.emitted) >= Len(emitted)
    /\ SubSeq(p.emitted, 1, Len(emitted)) = emitted
    /\ \A k \in 1 .. Len(p.emitted) : p.emitted[k] = AtlasDrawBounds(p.atlases[k])
    /\ Len(SealLast(p.atlases, p.emitted)) = Len(p.atlases)
    /\ \A k \in 1 .. Len(p.atlases) :
         SealLast(p.atlases, p.emitted)[k] = AtlasDrawBounds(p.atlases[k])

\* C24: every atlas page created during a flush is sealed exactly once, in
\* page-creation order, the last one before the finalize step: at finalize
\* the number of coverage ops equals the number of pages and the i-th op
\* has the draw bounds of the i-th page, for any sequence of placements,
\* repeated placements that do not fit the current page included.
PagesSealedOnceInOrder ==
    FlushFilled =>
      /\ Len(flushInfo.emitted) = Len(fPerFlushAtlases)
      /\ \A k \in 1 .. Len(fPerFlushAtlases) :
           flushInfo.emitted[k] = AtlasDrawBounds(fPerFlushAtlases[k])
      /\ \A s1 \in PlacementInputs, s2 \in PlacementInputs, junk \in JunkLocations :
           LET p == PlaceParsedPathInAtlas(fPerFlushAtlases, OpenEmitted,
                                           s1[2], s1[1], junk)
           IN /\ SealsFollowPages(fPerFlushAtlases, OpenEmitted, p)
              /\ SealsFollowPages(p.atlases, p.emitted,
                    PlaceParsedPathInAtlas(p.atlases, p.emitted, s2[2], s2[1], junk))

\* Two paths too large for any page were placed one after the other: two
\* pages, both sealed
PagesSealedWitness ==
    /\ FlushFilled
    /\ Len(fPerFlushAtlases) = 2
    /\ Len(flushInfo.emitted) = 2
    /\ fPerFlushAtlases[1].w = 0
    /\ fPerFlushAtlases[2].w = 0


\* ---------------------------------------------------------------------------
\* Atlas batches of an op (setupResources 407-458) and their execution
\* (onExecute 527-551).

\* Instance index at which run i of op o starts.
RunStart(o, i) ==
    IF i = 1 THEN ops[o].fBaseInstance ELSE ops[o].fAtlasBatches[i - 1].fEndInstanceIdx

\* Positions in the instance data (counted from 1) of run i of op o.
RunOf(o, i) == (RunStart(o, i) + 1) .. ops[o].fAtlasBatches[i].fEndInstanceIdx

\* The command onExecute issues for run i of op o.
RunCommand(o, i) ==
    [ op |-> o, atlas |-> ops[o].fAtlasBatches[i].fAtlas,
      baseInstance |-> RunStart(o, i),
      count |-> ops[o].fAtlasBatches[i].fEndInstanceIdx - RunStart(o, i) ]

\* The runs of every op the flush in progress has set up.
RunsPartitionInstances ==
    FlushFilled =>
      \A o \in SetUpOps :
        LET n == Len(ops[o].fAtlasBatches) IN
        /\ ops[o].fBaseInstance >= 0
        /\ \A i \in 1 .. n :
             /\ RunOf(o, i) # {}
             /\ \A k \in RunOf(o, i) :
                  /\ k \in InstancesOf(o)
                  /\ fPerFlushInstanceBuffer.data[k].atlas = ops[o].fAtlasBatches[i].fAtlas
             /\ i < n => ops[o].fAtlasBatches[i].fAtlas # ops[o].fAtlasBatches[i + 1].fAtlas
        /\ InstancesOf(o) = UNION { RunOf(o, i) : i \in 1 .. n }
        /\ { c \in drawCmds : c.op = o } \subseteq { RunCommand(o, i) : i \in 1 .. n }

\* The step that executes an op set up by the flush in progress.
ExecutionIssuesRunCommands ==
    \A o \in OpIds :
      (FlushFilled /\ o \in SetUpOps /\ ~ops[o].executed /\ ops'[o].executed) =>
         { c \in drawCmds' : c.op = o } =
            IF fPerFlushResourcesAreValid
            THEN { RunCommand(o, i) :
                     i \in { j \in 1 .. Len(ops[o].fAtlasBatches) :
                               fPerFlushAtlases[ops[o].fAtlasBatches[j].fAtlas].tex } }
            ELSE {}

\* C25: after setupResources the atlas batches of an op are non-empty
\* contiguous instance runs that partition the instances written for it from
\* fBaseInstance on, each run's instances were placed on the run's page, and
\* consecutive runs name different pages; onExecute issues one draw command
\* per run whose page has a texture, with the run's own range whether or not
\* earlier runs were skipped.
AtlasBatchesPartitionInstances ==
    []RunsPartitionInstances /\ [][ExecutionIssuesRunCommands]_vars

\* An executed op with two runs whose first page has no texture: the one
\* command issued starts where the skipped run ended
AtlasBatchesWitness ==
    /\ FlushFilled
    /\ fPerFlushResourcesAreValid
    /\ \E o \in SetUpOps :
         /\ ops[o].executed
         /\ Len(ops[o].fAtlasBatches) = 2
         /\ ~fPerFlushAtlases[ops[o].fAtlasBatches[1].fAtlas].tex
         /\ \E c \in drawCmds :
              c.op = o /\ c.baseInstance = ops[o].fAtlasBatches[1].fEndInstanceIdx


\* ---------------------------------------------------------------------------
\* Clip paths after preFlush returns (the lazy atlas proxy of ClipPath::init,
\* 236-245, asserts fHasAtlas when it is instantiated).

\* The clip path entries of the registries the flush in progress named.
NamedClipEntries ==
    { e \in ClipEntries(fRTPendingPathsMap) : e[1] \in flushInfo.named }

\* C27: when preFlush has returned, every clip path entry of every registry
\* named in the flush has been placed, on every return path of preFlush, the
\* early returns after a failed buffer allocation included.
NamedClipPathsPlacedAfterPreFlush ==
    fFlushing =>
      \A e \in NamedClipEntries : fRTPendingPathsMap[e[1]].fClipPaths[e[2]].fHasAtlas

\* preFlush has returned after a failed buffer allocation and an entry of a
\* registry it named is unplaced
UnplacedAfterFailedPreFlush ==
    /\ fFlushing
    /\ flushInfo.failAt \in {"index", "vertex", "instance"}
    /\ flushInfo.numClipPaths > 0
    /\ \E e \in NamedClipEntries :
         /\ ~fRTPendingPathsMap[e[1]].fClipPaths[e[2]].fHasAtlas
         /\ fRTPendingPathsMap[e[1]].fClipPaths[e[2]].fAtlas = 0


\* ---------------------------------------------------------------------------
\* The SingleDraw list of an op before and after it is recorded: the methods
\* of DrawPathsOp called one at a time, finalize included.

NextBatch ==
    \/ NewOp
    \/ Finalize
    \/ WasRecorded
    \/ Combine
    \/ DeleteOp

SpecBatch == Init /\ [][NextBatch]_vars

HoldsOnlyItsHead(d, o, op) == Walk(d, op) = <<op>> /\ o[op].fTailDraw = op

\* An op that is in no registry holds its embedded head draw alone; the draws a
\* registered op holds behind its head are nodes of its registry's allocator.
UnrecordedHoldsItsHead ==
    \A op \in OpIds : Live(op) =>
        IF ops[op].fOwningRTPendingPaths = 0
        THEN HoldsOnlyItsHead(draws, ops, op)
        ELSE \A i \in 2 .. Len(Walk(draws, op)) :
               Walk(draws, op)[i] \in
                 fRTPendingPathsMap[ops[op].fOwningRTPendingPaths].fDrawsAllocator

\* A step that lengthens an op's list is taken by a registered op and stores
\* the new node in that op's registry; a step that finalizes an op finds it
\* holding its head draw alone.
AbsorbsRegisteredFinalizesSingle ==
    \A op \in OpIds : (Live(op) /\ ops'[op].st = "live") =>
        /\ Len(Walk(draws', op)) > Len(Walk(draws, op)) =>
              /\ ops[op].fOwningRTPendingPaths # 0
              /\ ops'[op].fOwningRTPendingPaths = ops[op].fOwningRTPendingPaths
              /\ (DOMAIN draws' \ DOMAIN draws) \subseteq
                    fRTPendingPathsMap'[ops[op].fOwningRTPendingPaths].fDrawsAllocator
              /\ DOMAIN draws' # DOMAIN draws
        /\ (~ops[op].finalized /\ ops'[op].finalized) =>
              HoldsOnlyItsHead(draws, ops, op) /\ HoldsOnlyItsHead(draws', ops', op)

\* C28: a batch that has not been recorded into a registry always holds
\* exactly one SingleDraw, its embedded head with tail == head: only a
\* registered batch absorbs another, every appended SingleDraw is stored in
\* the absorbing batch's registry allocator, and a batch is finalized only
\* while it still holds exactly one SingleDraw.
UnrecordedBatchHoldsOneDraw ==
    []UnrecordedHoldsItsHead /\ [][AbsorbsRegisteredFinalizesSingle]_vars

\* A finalized, registered op that has absorbed an op which was never
\* recorded and still holds its own head draw
UnrecordedBatchWitness ==
    \E this \in OpIds, that \in OpIds :
      /\ Live(this) /\ Live(that)
      /\ ops[this].finalized
      /\ ops[this].fOwningRTPendingPaths # 0
      /\ Len(Walk(draws, this)) = 2
      /\ ops[that].fOwningRTPendingPaths = 0
      /\ ops[that].fInstanceCount = 0
      /\ HoldsOnlyItsHead(draws, ops, that)


\* ---------------------------------------------------------------------------
\* The validity mark (written at 287 and 404 only) and the per-flush buffers.

====
